---- MODULE Spec2Model ----
(***************************************************************************)
(* TaskGraph of src/parallel_runner.py: tasks with dependency lists are    *)
(* all submitted to a ThreadPoolExecutor of max_workers threads; each      *)
(* _execute_task waits on the threading.Event of every registered          *)
(* dependency, short-circuits on a failed one, otherwise invokes the       *)
(* task's fn with task-level retry on EmptyResponseError, stores the task  *)
(* in _completed and sets its own event.                                   *)
(***************************************************************************)
EXTENDS Integers, Sequences, FiniteSets, TLC

\* ---------------------------------------------------------------- bounds
NumTasks == 3
MaxWorkers == 2
MaxDeps == 2
MaxGhostDeps == 1
MaxGhostGraph == 2
MaxFailures == 5
FanWidth == 2
BarrierParties == 3
MaxSpareWorkers == 1
RunMaxExperiments == 1
RunMaxPairs == 1
RunMaxHoles == 0
MaxClientFaults == 1
MaxFaultyExperiments == 1
MaxFaultyWorkers == 1
MaxLostUpdates == 1
MaxDisturbances == 1
SerialMaxHoles == 1
MaxOps == 3
MaxToolTurns == 3
BuildMaxExperiments == 2
BuildMaxPairs == 2
BuildMaxHoles == 1

\* ------------------------------------------------------ program constants
TASK_RETRIES == 3
TASK_RETRY_BACKOFF == 5

\* ----------------------------------------------------------------- values
TaskNames == <<"a", "b", "c", "d", "e">>
GhostId == "x"

NoError == [kind |-> "None", msg |-> <<>>]
NoResult == [task |-> "None", call |-> 0]

\* the value the n-th invocation of t's fn returns
FnResult(t, n) == [task |-> t, call |-> n]
\* the exception the n-th invocation of t's fn raises
FnError(t, n, outcome) ==
    [kind |-> IF outcome = "transient" THEN "EmptyResponseError" ELSE "ValueError",
     msg |-> <<"raised by", t, "call", ToString(n)>>]

Outcomes == {"ok", "transient", "fatal"}

VARIABLES
    order,        \* TaskGraph._tasks: the registered ids in insertion order
    depends_on,   \* Task.depends_on of every registered task
    max_workers,  \* TaskGraph._max_workers
    task,         \* Task.result / Task.error of every registered task
    completed,    \* keys of TaskGraph._completed (the values are the Task objects)
    events,       \* TaskGraph._events: is the Event of the id set
    setCount,     \* number of Event.set() calls on the id's event
    pc,           \* position of every task's _execute_task
    depIdx,       \* index of the dependency the task's loop is at
    attempt,      \* loop variable of the retry loop
    calls,        \* outcomes of the invocations of the task's fn, in order
    sleeps,       \* durations of the time.sleep() calls of the task
    submitted,    \* number of pool.submit() calls run() has made
    joined,       \* number of future.result() calls that have returned
    runPc,        \* position of run_model_parallel / run()
    returned,     \* keys of the map run() returned
    experiments,      \* run_model_parallel: experiments
    system_variants,  \* run_model_parallel: system_variants
    delivery_modes,   \* run_model_parallel: delivery_modes
    cache,        \* the cache directory: the record of every existing cache file
    cache0,       \* the cache directory as it was when run_model_parallel was entered
    shared,       \* SharedResponses._data
    fn,           \* Task.fn of every registered task: which closure it is
    n_calls,      \* TaskCost.n_calls of gen_cost and of judge_cost
    seen,         \* TaskCost.add: the n_calls a thread has loaded for its +=
    ops,          \* the calls threads have made on a SharedResponses, in invocation order
    tool_call_counter,  \* prompt_builder._tool_call_counter
    drawn,        \* per message builder at work: the tool call ids it has drawn
    plan,         \* the _add_* calls the two build functions make, in order
    buildIdx,     \* number of _add_* calls the two build functions have made
    prev_task_id  \* _add_identity_psych_chain: prev_task_id

\* the state of run_model_parallel around the TaskGraph
benchVars == <<experiments, system_variants, delivery_modes, cache, cache0, shared, fn,
               n_calls, seen, ops, tool_call_counter, drawn, plan, buildIdx,
                prev_task_id>>

vars == <<order, depends_on, max_workers, task, completed, events, setCount, pc,
          depIdx, attempt, calls, sleeps, submitted, joined, runPc, returned,
          experiments, system_variants, delivery_modes, cache, cache0, shared, fn,
          n_calls, seen, ops, tool_call_counter, drawn, plan, buildIdx,
                prev_task_id>>

\* --------------------------------------------------------------- helpers
Registered == {order[i] : i \in 1..Len(order)}

Range(s) == {s[i] : i \in 1..Len(s)}

\* depends_on entries that name a registered task (dep_id in self._events)
RegDeps(t) == Range(depends_on[t]) \cap Registered

\* sequences without repetition over S, of length at most k
RECURSIVE ListsOver(_, _)
ListsOver(S, k) ==
    IF k = 0 THEN {<<>>}
    ELSE LET shorter == ListsOver(S, k - 1)
         IN shorter \cup {Append(l, x) : l \in {m \in shorter : Len(m) = k - 1}, x \in S}

NoRepeat(l) == \A i, j \in 1..Len(l) : i # j => l[i] # l[j]

RECURSIVE Closure(_, _, _, _)
Closure(dep, reg, S, k) ==
    IF k = 0 THEN S
    ELSE Closure(dep, reg, S \cup UNION {Range(dep[u]) \cap reg : u \in S}, k - 1)

\* the registered tasks t depends on, directly or transitively
AncestorsIn(dep, reg, t) == Closure(dep, reg, Range(dep[t]) \cap reg, Cardinality(reg))

Ancestors(t) == AncestorsIn(depends_on, Registered, t)

Acyclic(dep, reg) == \A t \in reg : t \notin AncestorsIn(dep, reg, t)

\* tasks occupying a worker thread: popped from the pool's queue, not yet returned
Active == {t \in Registered : pc[t] \notin {"unsubmitted", "queued", "done"}}

\* the head of the pool's FIFO work queue, if any
QueueHead == IF \E i \in 1..Len(order) : pc[order[i]] = "queued"
             THEN {order[CHOOSE i \in 1..Len(order) :
                        /\ pc[order[i]] = "queued"
                        /\ \A j \in 1..(i - 1) : pc[order[j]] # "queued"]}
             ELSE {}

\* ------------------------------------------------------------------ Init
\* a fn of the tests: any callable
TestFn == [kind |-> "test"]

\* a TaskGraph used on its own: no run_model_parallel around it
NoBench ==
    /\ experiments = <<>>
    /\ system_variants = <<>>
    /\ delivery_modes = <<>>
    /\ cache = <<>>
    /\ cache0 = <<>>
    /\ shared = <<>>
    /\ fn = [t \in Registered |-> TestFn]
    /\ n_calls = [gen |-> 0, judge |-> 0]
    /\ seen = <<>>
    /\ ops = <<>>
    /\ tool_call_counter = 0
    /\ drawn = <<>>
    /\ plan = <<>>
    /\ buildIdx = 0
    /\ prev_task_id = <<>>

\* any acyclic graph of at most NumTasks tasks, registered in the order a, b, c, ...
\* (a dependency may be registered before or after its dependent, or, in the graphs
\* of at most MaxGhostGraph tasks, not at all)
InitGraph ==
    /\ \E n \in 0..NumTasks : order = SubSeq(TaskNames, 1, n)
    /\ depends_on \in [Registered -> {l \in ListsOver(Registered \cup {GhostId}, MaxDeps) : NoRepeat(l)}]
    /\ Acyclic(depends_on, Registered)
    /\ Cardinality({t \in Registered : GhostId \in Range(depends_on[t])}) <= MaxGhostDeps
    /\ (\E t \in Registered : GhostId \in Range(depends_on[t])) => Len(order) <= MaxGhostGraph

\* test_fan_out_fan_in / test_diamond_dependency: a root, FanWidth middle tasks
\* depending on it, and a final task depending on every middle task
FanRoot == TaskNames[1]
FanMiddle == {TaskNames[i] : i \in 2..(FanWidth + 1)}
FanFinal == TaskNames[FanWidth + 2]
FanDeps == [t \in {FanRoot, FanFinal} \cup FanMiddle |->
               IF t = FanRoot THEN <<>>
               ELSE IF t \in FanMiddle THEN <<FanRoot>>
               ELSE SubSeq(TaskNames, 2, FanWidth + 1)]
InitFan ==
    /\ order = SubSeq(TaskNames, 1, FanWidth + 2)
    /\ depends_on = FanDeps

Init ==
    /\ InitGraph \/ InitFan
    /\ max_workers \in 1..MaxWorkers
    /\ task = [t \in Registered |-> [result |-> NoResult, error |-> NoError]]
    /\ completed = {}
    /\ events = [t \in Registered |-> FALSE]
    /\ setCount = [t \in Registered |-> 0]
    /\ pc = [t \in Registered |-> "unsubmitted"]
    /\ depIdx = [t \in Registered |-> 1]
    /\ attempt = [t \in Registered |-> 0]
    /\ calls = [t \in Registered |-> <<>>]
    /\ sleeps = [t \in Registered |-> <<>>]
    /\ submitted = 0
    /\ joined = 0
    /\ runPc = "submit"
    /\ returned = {}
    /\ NoBench

\* ------------------------------------------------------------------ run()
\* for task_id, task in self._tasks.items(): futures[task_id] = pool.submit(...)
Submit ==
    /\ runPc = "submit"
    /\ submitted < Len(order)
    /\ submitted' = submitted + 1
    /\ pc' = [pc EXCEPT ![order[submitted + 1]] = "queued"]
    /\ UNCHANGED benchVars
    /\ UNCHANGED <<order, depends_on, max_workers, task, completed, events, setCount,
                   depIdx, attempt, calls, sleeps, joined, runPc, returned>>

\* the submit loop is over, the loop over future.result() begins
SubmitDone ==
    /\ runPc = "submit"
    /\ submitted = Len(order)
    /\ runPc' = "join"
    /\ UNCHANGED benchVars
    /\ UNCHANGED <<order, depends_on, max_workers, task, completed, events, setCount, pc,
                   depIdx, attempt, calls, sleeps, submitted, joined, returned>>

\* future.result() of the next future returns once its _execute_task returned
Join ==
    /\ runPc = "join"
    /\ joined < Len(order)
    /\ pc[order[joined + 1]] = "done"
    /\ joined' = joined + 1
    /\ UNCHANGED benchVars
    /\ UNCHANGED <<order, depends_on, max_workers, task, completed, events, setCount, pc,
                   depIdx, attempt, calls, sleeps, submitted, runPc, returned>>

\* the with-block exits (pool shutdown, wait=True) and run() returns self._completed
Return ==
    /\ runPc = "join"
    /\ joined = Len(order)
    /\ \A t \in Registered : pc[t] = "done"
    /\ runPc' = "returned"
    /\ returned' = completed
    /\ UNCHANGED benchVars
    /\ UNCHANGED <<order, depends_on, max_workers, task, completed, events, setCount, pc,
                   depIdx, attempt, calls, sleeps, submitted, joined>>

\* ------------------------------------------------------- the worker pool
\* variant: the pool starts a thread for every work item, whatever max_workers is
StartUnbounded(t) ==
    /\ t \in QueueHead
    /\ pc' = [pc EXCEPT ![t] = "deps"]
    /\ depIdx' = [depIdx EXCEPT ![t] = 1]
    /\ UNCHANGED benchVars
    /\ UNCHANGED <<order, depends_on, max_workers, task, completed, events, setCount,
                   attempt, calls, sleeps, submitted, joined, runPc, returned>>

\* variant: the pool runs one work item at a time, whatever max_workers is
StartSerial(t) ==
    /\ t \in QueueHead
    /\ Active = {}
    /\ pc' = [pc EXCEPT ![t] = "deps"]
    /\ depIdx' = [depIdx EXCEPT ![t] = 1]
    /\ UNCHANGED benchVars
    /\ UNCHANGED <<order, depends_on, max_workers, task, completed, events, setCount,
                   attempt, calls, sleeps, submitted, joined, runPc, returned>>

\* a free worker thread pops the oldest queued work item and enters _execute_task
Start(t) ==
    /\ t \in QueueHead
    /\ Cardinality(Active) < max_workers
    /\ pc' = [pc EXCEPT ![t] = "deps"]
    /\ depIdx' = [depIdx EXCEPT ![t] = 1]
    /\ UNCHANGED benchVars
    /\ UNCHANGED <<order, depends_on, max_workers, task, completed, events, setCount,
                   attempt, calls, sleeps, submitted, joined, runPc, returned>>

\* --------------------------------------------------------- _execute_task
\* f"Dependency {dep_id} failed: {dep.error}"
DependencyError(dep_id, cause) ==
    [kind |-> "RuntimeError", msg |-> <<"Dependency", dep_id, "failed:">> \o cause.msg]

\* variant: the check for a failed dependency is missing
DepFailedIgnored(dep_id) == FALSE

\* variant: any failed task in _completed counts, not only the dependency waited for
DepFailedAny(dep_id) == \E d \in completed : task[d].error # NoError

\* dep = self._completed.get(dep_id); if dep and dep.error
DepFailed(dep_id) == dep_id \in completed /\ task[dep_id].error # NoError

\* variant: an id that is not in self._events counts as a failed dependency
SkipDepAsFailure(t) ==
    /\ pc[t] = "deps"
    /\ depIdx[t] <= Len(depends_on[t])
    /\ depends_on[t][depIdx[t]] \notin Registered
    /\ task' = [task EXCEPT ![t].error = [kind |-> "RuntimeError",
                    msg |-> <<"Dependency", depends_on[t][depIdx[t]], "failed:">>]]
    /\ pc' = [pc EXCEPT ![t] = "store"]
    /\ UNCHANGED benchVars
    /\ UNCHANGED <<order, depends_on, max_workers, completed, events, setCount, depIdx,
                   attempt, calls, sleeps, submitted, joined, runPc, returned>>

\* the dependency loop passes an id that is not in self._events
SkipDep(t) ==
    /\ pc[t] = "deps"
    /\ depIdx[t] <= Len(depends_on[t])
    /\ depends_on[t][depIdx[t]] \notin Registered
    /\ depIdx' = [depIdx EXCEPT ![t] = @ + 1]
    /\ UNCHANGED benchVars
    /\ UNCHANGED <<order, depends_on, max_workers, task, completed, events, setCount, pc,
                   attempt, calls, sleeps, submitted, joined, runPc, returned>>

\* variant: the loop does not block on the dependency's event
WaitDepNoWait(t) ==
    /\ pc[t] = "deps"
    /\ depIdx[t] <= Len(depends_on[t])
    /\ depends_on[t][depIdx[t]] \in Registered
    /\ pc' = [pc EXCEPT ![t] = "check"]
    /\ UNCHANGED benchVars
    /\ UNCHANGED <<order, depends_on, max_workers, task, completed, events, setCount,
                   depIdx, attempt, calls, sleeps, submitted, joined, runPc, returned>>

\* self._events[dep_id].wait() returns
WaitDep(t) ==
    /\ pc[t] = "deps"
    /\ depIdx[t] <= Len(depends_on[t])
    /\ depends_on[t][depIdx[t]] \in Registered
    /\ events[depends_on[t][depIdx[t]]]
    /\ pc' = [pc EXCEPT ![t] = "check"]
    /\ UNCHANGED benchVars
    /\ UNCHANGED <<order, depends_on, max_workers, task, completed, events, setCount,
                   depIdx, attempt, calls, sleeps, submitted, joined, runPc, returned>>

\* variant: the short-circuit on a failed dependency returns without recording the
\* task or setting its event
CheckDepNoSignal(t) ==
    /\ pc[t] = "check"
    /\ LET dep_id == depends_on[t][depIdx[t]]
       IN IF dep_id \in completed /\ task[dep_id].error # NoError
          THEN /\ task' = [task EXCEPT ![t].error = [kind |-> "RuntimeError",
                              msg |-> <<"Dependency", dep_id, "failed:">> \o task[dep_id].error.msg]]
               /\ pc' = [pc EXCEPT ![t] = "done"]
               /\ UNCHANGED depIdx
          ELSE /\ depIdx' = [depIdx EXCEPT ![t] = @ + 1]
               /\ pc' = [pc EXCEPT ![t] = "deps"]
               /\ UNCHANGED task
    /\ UNCHANGED benchVars
    /\ UNCHANGED <<order, depends_on, max_workers, completed, events, setCount,
                   attempt, calls, sleeps, submitted, joined, runPc, returned>>

\* the check of the dependency just waited for
CheckDep(t) ==
    /\ pc[t] = "check"
    /\ LET dep_id == depends_on[t][depIdx[t]]
       IN IF DepFailed(dep_id)
          THEN /\ task' = [task EXCEPT ![t].error = DependencyError(dep_id, task[dep_id].error)]
               /\ pc' = [pc EXCEPT ![t] = "store"]
               /\ UNCHANGED depIdx
          ELSE /\ depIdx' = [depIdx EXCEPT ![t] = @ + 1]
               /\ pc' = [pc EXCEPT ![t] = "deps"]
               /\ UNCHANGED task
    /\ UNCHANGED benchVars
    /\ UNCHANGED <<order, depends_on, max_workers, completed, events, setCount,
                   attempt, calls, sleeps, submitted, joined, runPc, returned>>

\* the dependency loop is over: the retry loop starts and calls task.fn()
BeginWork(t) ==
    /\ pc[t] = "deps"
    /\ depIdx[t] > Len(depends_on[t])
    /\ attempt' = [attempt EXCEPT ![t] = 1]
    /\ pc' = [pc EXCEPT ![t] = "working"]
    /\ UNCHANGED benchVars
    /\ UNCHANGED <<order, depends_on, max_workers, task, completed, events, setCount,
                   depIdx, calls, sleeps, submitted, joined, runPc, returned>>

\* variant: only the first attempt is retried
RetryableOnce(outcome, n) == outcome = "transient" /\ n <= 1

\* variant: the budget is one retry short
RetryableOffByOne(outcome, n) == outcome = "transient" /\ n < TASK_RETRIES

\* variant: every exception is retried, not only EmptyResponseError
RetryableAnyException(outcome, n) == n <= TASK_RETRIES

\* except EmptyResponseError ... if attempt <= self.TASK_RETRIES: sleep and continue
Retryable(outcome, n) == outcome = "transient" /\ n <= TASK_RETRIES

\* for attempt in range(1, self.TASK_RETRIES + 2)
InRange(n) == 1 <= n /\ n <= TASK_RETRIES + 1

\* variant: the wait doubles with every retry, the "exponential backoff" of the docstring
BackoffWaitExponential(n) == TASK_RETRY_BACKOFF * 2 ^ (n - 1)

\* wait = self.TASK_RETRY_BACKOFF * attempt
BackoffWait(n) == TASK_RETRY_BACKOFF * n

\* number of invocations, over all tasks, in which fn raised
Failures == Cardinality({<<t, i>> \in Registered \X (1..(MaxFailures + 1)) :
                            i <= Len(calls[t]) /\ calls[t][i] # "ok"})

\* variant: the break after a successful call is missing, the loop calls fn again
EndWorkNoBreak(t) ==
    /\ pc[t] = "working"
    /\ \E outcome \in Outcomes :
        LET n == Len(calls[t]) + 1 IN
        /\ outcome # "ok" => Failures < MaxFailures
        /\ calls' = [calls EXCEPT ![t] = Append(@, outcome)]
        /\ IF outcome = "ok"
           THEN /\ task' = [task EXCEPT ![t] = [result |-> FnResult(t, n), error |-> NoError]]
                /\ IF attempt[t] <= TASK_RETRIES
                   THEN attempt' = [attempt EXCEPT ![t] = @ + 1] /\ UNCHANGED pc
                   ELSE pc' = [pc EXCEPT ![t] = "store"] /\ UNCHANGED attempt
                /\ UNCHANGED sleeps
           ELSE IF outcome = "transient" /\ attempt[t] <= TASK_RETRIES
           THEN /\ sleeps' = [sleeps EXCEPT ![t] = Append(@, TASK_RETRY_BACKOFF * attempt[t])]
                /\ pc' = [pc EXCEPT ![t] = "sleep"]
                /\ UNCHANGED <<task, attempt>>
           ELSE /\ task' = [task EXCEPT ![t].error = FnError(t, n, outcome)]
                /\ pc' = [pc EXCEPT ![t] = "store"]
                /\ UNCHANGED <<sleeps, attempt>>
    /\ UNCHANGED benchVars
    /\ UNCHANGED <<order, depends_on, max_workers, completed, events, setCount,
                   depIdx, submitted, joined, runPc, returned>>

\* variant: an exception that ends the task is also stored as its result
EndWorkResultOnError(t) ==
    /\ pc[t] = "working"
    /\ \E outcome \in Outcomes :
        LET n == Len(calls[t]) + 1 IN
        /\ outcome # "ok" => Failures < MaxFailures
        /\ calls' = [calls EXCEPT ![t] = Append(@, outcome)]
        /\ IF outcome = "ok"
           THEN /\ task' = [task EXCEPT ![t] = [result |-> FnResult(t, n), error |-> NoError]]
                /\ pc' = [pc EXCEPT ![t] = "store"]
                /\ UNCHANGED sleeps
           ELSE IF Retryable(outcome, attempt[t])
           THEN /\ sleeps' = [sleeps EXCEPT ![t] = Append(@, BackoffWait(attempt[t]))]
                /\ pc' = [pc EXCEPT ![t] = "sleep"]
                /\ UNCHANGED task
           ELSE /\ task' = [task EXCEPT ![t] = [result |-> FnResult(t, n),
                                                error |-> FnError(t, n, outcome)]]
                /\ pc' = [pc EXCEPT ![t] = "store"]
                /\ UNCHANGED sleeps
    /\ UNCHANGED benchVars
    /\ UNCHANGED <<order, depends_on, max_workers, completed, events, setCount,
                   depIdx, attempt, submitted, joined, runPc, returned>>

\* task.fn() returns or raises; the try/except of the retry loop handles it:
\* success sets result, clears error and breaks; EmptyResponseError within the
\* budget sleeps; any other exception, or the exhausted budget, sets error
EndWork(t) ==
    /\ pc[t] = "working"
    /\ \E outcome \in Outcomes :
        LET n == Len(calls[t]) + 1 IN
        /\ outcome # "ok" => Failures < MaxFailures
        /\ calls' = [calls EXCEPT ![t] = Append(@, outcome)]
        /\ IF outcome = "ok"
           THEN /\ task' = [task EXCEPT ![t] = [result |-> FnResult(t, n), error |-> NoError]]
                /\ pc' = [pc EXCEPT ![t] = "store"]
                /\ UNCHANGED sleeps
           ELSE IF Retryable(outcome, attempt[t])
           THEN /\ sleeps' = [sleeps EXCEPT ![t] = Append(@, BackoffWait(attempt[t]))]
                /\ pc' = [pc EXCEPT ![t] = "sleep"]
                /\ UNCHANGED task
           ELSE /\ task' = [task EXCEPT ![t].error = FnError(t, n, outcome)]
                /\ pc' = [pc EXCEPT ![t] = "store"]
                /\ UNCHANGED sleeps
    /\ UNCHANGED benchVars
    /\ UNCHANGED <<order, depends_on, max_workers, completed, events, setCount,
                   depIdx, attempt, submitted, joined, runPc, returned>>

\* time.sleep(wait) returns; continue: the next iteration of the loop calls task.fn()
Retry(t) ==
    /\ pc[t] = "sleep"
    /\ attempt' = [attempt EXCEPT ![t] = @ + 1]
    /\ pc' = [pc EXCEPT ![t] = IF InRange(attempt[t] + 1) THEN "working" ELSE "store"]
    /\ UNCHANGED benchVars
    /\ UNCHANGED <<order, depends_on, max_workers, task, completed, events, setCount,
                   depIdx, calls, sleeps, submitted, joined, runPc, returned>>

\* variant: only a task without error is recorded in _completed
StoreSuccessOnly(t) ==
    /\ pc[t] = "store"
    /\ completed' = IF task[t].error = NoError THEN completed \cup {t} ELSE completed
    /\ pc' = [pc EXCEPT ![t] = "signal"]
    /\ UNCHANGED benchVars
    /\ UNCHANGED <<order, depends_on, max_workers, task, events, setCount,
                   depIdx, attempt, calls, sleeps, submitted, joined, runPc, returned>>

\* variant: _execute_task goes on to set the event without recording the task
StoreSkipped(t) ==
    /\ pc[t] = "store"
    /\ pc' = [pc EXCEPT ![t] = "signal"]
    /\ UNCHANGED benchVars
    /\ UNCHANGED <<order, depends_on, max_workers, task, completed, events, setCount,
                   depIdx, attempt, calls, sleeps, submitted, joined, runPc, returned>>

\* with self._lock: self._completed[task.id] = task
Store(t) ==
    /\ pc[t] = "store"
    /\ completed' = completed \cup {t}
    /\ pc' = [pc EXCEPT ![t] = "signal"]
    /\ UNCHANGED benchVars
    /\ UNCHANGED <<order, depends_on, max_workers, task, events, setCount,
                   depIdx, attempt, calls, sleeps, submitted, joined, runPc, returned>>

\* self._events[task.id].set(), and _execute_task returns
Signal(t) ==
    /\ pc[t] = "signal"
    /\ events' = [events EXCEPT ![t] = TRUE]
    /\ setCount' = [setCount EXCEPT ![t] = @ + 1]
    /\ pc' = [pc EXCEPT ![t] = "done"]
    /\ UNCHANGED benchVars
    /\ UNCHANGED <<order, depends_on, max_workers, task, completed,
                   depIdx, attempt, calls, sleeps, submitted, joined, runPc, returned>>

Next ==
    \/ Submit
    \/ SubmitDone
    \/ Join
    \/ Return
    \/ \E t \in Registered : Start(t)
    \/ \E t \in Registered : SkipDep(t)
    \/ \E t \in Registered : WaitDep(t)
    \/ \E t \in Registered : CheckDep(t)
    \/ \E t \in Registered : BeginWork(t)
    \/ \E t \in Registered : EndWork(t)
    \/ \E t \in Registered : Retry(t)
    \/ \E t \in Registered : Store(t)
    \/ \E t \in Registered : Signal(t)

Spec == Init /\ [][Next]_vars

\* ------------------------------------------------------------ vocabulary
Last(s) == s[Len(s)]

\* _execute_task of t has returned
Finished(t) == pc[t] = "done"

HasError(t) == task[t].error # NoError

\* t holds the value its last invocation returned and no error
Succeeded(t) ==
    /\ calls[t] # <<>>
    /\ Last(calls[t]) = "ok"
    /\ task[t].error = NoError
    /\ task[t].result = FnResult(t, Len(calls[t]))

\* the last invocation of t's own fn raised and no further attempt follows
OwnFailure(t) ==
    /\ calls[t] # <<>>
    /\ Last(calls[t]) # "ok"
    /\ pc[t] \in {"store", "signal", "done"}

\* t ended by the short-circuit on a failed dependency
DepFailureOutcome(t) == Finished(t) /\ calls[t] = <<>> /\ task[t].error.kind = "RuntimeError"

ExhaustedOutcome(t) ==
    /\ Finished(t)
    /\ Len(calls[t]) = TASK_RETRIES + 1
    /\ \A i \in 1..Len(calls[t]) : calls[t][i] = "transient"

FatalOutcome(t) == Finished(t) /\ calls[t] # <<>> /\ Last(calls[t]) = "fatal"

IsFan == Len(order) = FanWidth + 2 /\ depends_on = FanDeps

\* the first entry of t's depends_on that is registered and ended with an error
FirstFailedDep(t) ==
    LET failed == {i \in 1..Len(depends_on[t]) :
                      /\ depends_on[t][i] \in Registered
                      /\ depends_on[t][i] \in completed
                      /\ HasError(depends_on[t][i])}
    IN depends_on[t][CHOOSE i \in failed : \A j \in failed : i <= j]

\* ---------------------------------------------------------------- claims

\* C1: when run() returns, the keys of the returned map are exactly the registered
\* task ids and every task in it is terminal: it succeeded or it has an error; for
\* a graph without tasks the returned map is empty.
Thm_C1_ReturnedMapComplete ==
    runPc = "returned" =>
        /\ returned = Registered
        /\ \A t \in returned : Finished(t) /\ (Succeeded(t) \/ HasError(t))
        /\ (order = <<>> => returned = {})

Wit_C1_ReturnedMixedOutcomes ==
    /\ runPc = "returned"
    /\ Cardinality(returned) = NumTasks
    /\ \E t \in returned : Succeeded(t)
    /\ \E t \in returned : HasError(t)

\* C2: for every edge (t lists a registered d in depends_on) no invocation of t's
\* fn begins before d is terminal: whenever t is inside its fn, or has ever invoked
\* it, d is recorded, its event is set and its _execute_task is over. For the
\* fan-out/fan-in graphs this is: the root is over before a middle task works and
\* every middle task is over before the final task works, for every pool size.
Thm_C2_WorkAfterDependencies ==
    \A t \in Registered :
        (pc[t] = "working" \/ calls[t] # <<>>) =>
            \A d \in RegDeps(t) : Finished(d) /\ d \in completed /\ events[d]

Wit_C2_FanFinalWorking ==
    /\ IsFan
    /\ max_workers = MaxWorkers
    /\ pc[FanFinal] = "working"
    /\ \A m \in FanMiddle : Succeeded(m)

\* C3: if a task A ended with an error, a task that depends on A directly or
\* transitively never invokes its fn, never sleeps for backoff, and when it has
\* ended it holds the derived error "Dependency <id> failed: <cause>", <id> being
\* the first failed entry of its depends_on and <cause> that entry's error.
Thm_C3_DependencyFailurePropagates ==
    \A t \in Registered :
        (\E a \in Ancestors(t) : a \in completed /\ HasError(a)) =>
            /\ calls[t] = <<>>
            /\ sleeps[t] = <<>>
            /\ pc[t] \notin {"working", "sleep"}
            /\ Finished(t) =>
                /\ \E d \in RegDeps(t) : d \in completed /\ HasError(d)
                /\ task[t].error =
                       [kind |-> "RuntimeError",
                        msg |-> <<"Dependency", FirstFailedDep(t), "failed:">>
                                    \o task[FirstFailedDep(t)].error.msg]
                /\ task[t].result = NoResult

Wit_C3_TransitiveDependentFailed ==
    \E a, b, c \in Registered :
        /\ OwnFailure(a) /\ Finished(a)
        /\ a \in RegDeps(b) /\ b \in RegDeps(c) /\ a \notin RegDeps(c)
        /\ DepFailureOutcome(b)
        /\ DepFailureOutcome(c)

\* C4: failure is localized: a finished task whose own fn did not fail and none of
\* whose direct or transitive dependencies failed has invoked its fn and holds that
\* invocation's result and no error, whatever happened to the other tasks.
Thm_C4_FailureLocalized ==
    \A t \in Registered :
        (Finished(t) /\ ~OwnFailure(t) /\ \A a \in Ancestors(t) : ~OwnFailure(a)) =>
            Succeeded(t)

Wit_C4_SiblingOfFailureSucceeds ==
    \E f, t, u \in Registered :
        /\ runPc = "returned"
        /\ OwnFailure(f)
        /\ f \in Ancestors(u) /\ DepFailureOutcome(u)
        /\ f \notin Ancestors(t) /\ Ancestors(t) # {} /\ Succeeded(t)

\* C5: on each of the four outcomes (success, non-retryable exception, exhausted
\* retries, failed dependency) the task's event is set exactly once and its record
\* is in _completed: the event is never set twice, it has been set once exactly
\* when _execute_task is over, and then the task is recorded and terminal.
Thm_C5_SignalExactlyOnce ==
    \A t \in Registered :
        /\ setCount[t] <= 1
        /\ (setCount[t] = 1) = Finished(t)
        /\ events[t] = (setCount[t] = 1)
        /\ Finished(t) => t \in completed /\ (Succeeded(t) \/ HasError(t))

Wit_C5_AllFourOutcomes ==
    /\ \A t \in Registered : Finished(t)
    /\ \E t \in Registered : Succeeded(t)
    /\ \E t \in Registered : FatalOutcome(t)
    /\ \E t \in Registered : ExhaustedOutcome(t)
    /\ \E t \in Registered : DepFailureOutcome(t)

\* C6: deadlock freedom: for an acyclic task set whose dependency ids are all
\* registered, any pool size >= 1 and any registration order, run() goes on until
\* it returns: in every state either run() has returned or some step can be taken.
CE_C6_RunNeverStuck ==
    (\A t \in Registered : Range(depends_on[t]) \subseteq Registered) =>
        (runPc = "returned" \/ ENABLED Next)

\* C7: a task whose fn raises EmptyResponseError twice and then returns gets its
\* third invocation, and ends with that invocation's result, no error, exactly
\* three invocations and exactly two backoff sleeps.
Thm_C7_RetryThenSuccess ==
    \A t \in Registered :
        /\ (Len(calls[t]) = 2 /\ calls[t][1] = "transient" /\ calls[t][2] = "transient") =>
               pc[t] \in {"sleep", "working"}
        /\ (Len(calls[t]) >= 3 /\ SubSeq(calls[t], 1, 3) = <<"transient", "transient", "ok">>) =>
               /\ Len(calls[t]) = 3
               /\ pc[t] \in {"store", "signal", "done"}
               /\ task[t] = [result |-> FnResult(t, 3), error |-> NoError]
               /\ Len(sleeps[t]) = 2

Wit_C7_ThirdAttemptSucceeded ==
    \E t \in Registered : Finished(t) /\ calls[t] = <<"transient", "transient", "ok">>

\* C8: a task whose fn raises EmptyResponseError on every invocation is invoked
\* exactly TASK_RETRIES + 1 times with exactly TASK_RETRIES sleeps, and its error is
\* the EmptyResponseError of the last invocation.
Thm_C8_RetryExhaustion ==
    \A t \in Registered :
        (calls[t] # <<>> /\ \A i \in 1..Len(calls[t]) : calls[t][i] = "transient") =>
            /\ Len(calls[t]) <= TASK_RETRIES + 1
            /\ IF Len(calls[t]) <= TASK_RETRIES
               THEN pc[t] \in {"sleep", "working"} /\ task[t].error = NoError
               ELSE /\ pc[t] \in {"store", "signal", "done"}
                    /\ task[t].error = FnError(t, TASK_RETRIES + 1, "transient")
                    /\ task[t].result = NoResult
                    /\ Len(sleeps[t]) = TASK_RETRIES

Wit_C8_BudgetExhausted == \E t \in Registered : ExhaustedOutcome(t)

\* C9: an exception other than EmptyResponseError, on the first or on a later
\* attempt, ends the task at once with that exception as its error: it is the last
\* invocation and no sleep follows it.
Thm_C9_NonRetryableEndsTask ==
    \A t \in Registered : \A i \in 1..Len(calls[t]) :
        calls[t][i] = "fatal" =>
            /\ i = Len(calls[t])
            /\ pc[t] \in {"store", "signal", "done"}
            /\ task[t].error = FnError(t, i, "fatal")
            /\ task[t].result = NoResult
            /\ Len(sleeps[t]) = i - 1

Wit_C9_FatalOnLaterAttempt ==
    \E t \in Registered : Finished(t) /\ Len(calls[t]) >= 2 /\ Last(calls[t]) = "fatal"

\* C10: within one run() fn is invoked at most TASK_RETRIES + 1 times per task,
\* every invocation after the first directly follows an EmptyResponseError of the
\* previous one, and a task recorded in _completed is never inside fn again.
Thm_C10_InvocationsOnlyByRetry ==
    \A t \in Registered :
        /\ Len(calls[t]) + (IF pc[t] = "working" THEN 1 ELSE 0) <= TASK_RETRIES + 1
        /\ \A i \in 1..(Len(calls[t]) - 1) : calls[t][i] = "transient"
        /\ pc[t] = "working" =>
               /\ \A i \in 1..Len(calls[t]) : calls[t][i] = "transient"
               /\ attempt[t] = Len(calls[t]) + 1
               /\ t \notin completed
               /\ ~events[t]
        /\ t \in completed => pc[t] \in {"signal", "done"}

Wit_C10_FourthInvocation ==
    \E t \in Registered :
        Finished(t) /\ calls[t] = <<"transient", "transient", "transient", "ok">>

\* C24: a task with several dependencies becomes terminal (it is in _completed),
\* also when it ends with the error derived from a failed dependency, only after
\* every one of its registered dependencies is terminal: the dependencies are
\* inspected for failure after all of their events have been set.
CE_C24_TerminalAfterEveryDependency ==
    \A t \in Registered : t \in completed => RegDeps(t) \subseteq completed

\* ------------------------------------------- independent tasks at a barrier
\* test_independent_tasks_run_concurrently: n tasks without dependencies whose fn
\* waits at a threading.Barrier(n) and then returns, on a pool of at least n workers
InitBarrier ==
    /\ \E n \in 1..BarrierParties :
           /\ order = SubSeq(TaskNames, 1, n)
           /\ max_workers \in n..(n + MaxSpareWorkers)
    /\ depends_on = [t \in Registered |-> <<>>]
    /\ task = [t \in Registered |-> [result |-> NoResult, error |-> NoError]]
    /\ completed = {}
    /\ events = [t \in Registered |-> FALSE]
    /\ setCount = [t \in Registered |-> 0]
    /\ pc = [t \in Registered |-> "unsubmitted"]
    /\ depIdx = [t \in Registered |-> 1]
    /\ attempt = [t \in Registered |-> 0]
    /\ calls = [t \in Registered |-> <<>>]
    /\ sleeps = [t \in Registered |-> <<>>]
    /\ submitted = 0
    /\ joined = 0
    /\ runPc = "submit"
    /\ returned = {}
    /\ NoBench

\* barrier.wait() has returned in the waiting threads: every party is inside its fn
\* at once, or a party has already left its fn (which it can do only after that)
BarrierPassed ==
    \/ \A u \in Registered : pc[u] = "working"
    \/ \E u \in Registered : calls[u] # <<>>

\* concurrent_fn returns: barrier.wait() let the thread through and fn returns
EndWorkBarrier(t) ==
    /\ pc[t] = "working"
    /\ BarrierPassed
    /\ calls' = [calls EXCEPT ![t] = Append(@, "ok")]
    /\ task' = [task EXCEPT ![t] = [result |-> FnResult(t, Len(calls[t]) + 1), error |-> NoError]]
    /\ pc' = [pc EXCEPT ![t] = "store"]
    /\ UNCHANGED benchVars
    /\ UNCHANGED <<order, depends_on, max_workers, completed, events, setCount,
                   depIdx, attempt, sleeps, submitted, joined, runPc, returned>>

NextBarrier ==
    \/ Submit
    \/ SubmitDone
    \/ Join
    \/ Return
    \/ \E t \in Registered : Start(t)
    \/ \E t \in Registered : BeginWork(t)
    \/ \E t \in Registered : EndWorkBarrier(t)
    \/ \E t \in Registered : Store(t)
    \/ \E t \in Registered : Signal(t)

SpecBarrier == InitBarrier /\ [][NextBarrier]_vars

\* C11: with n mutually independent tasks and a pool of at least n workers the
\* scheduler never serializes them: the oldest queued task can always be started
\* at once, whatever the other tasks are doing; so the barrier that needs all n
\* inside fn at the same time never blocks the run (in every state run() has
\* returned or a step can be taken), and when run() returns every task has
\* returned from fn exactly once, without error.
Thm_C11_IndependentTasksConcurrent ==
    /\ \A t \in QueueHead : ENABLED Start(t)
    /\ runPc = "returned" \/ ENABLED NextBarrier
    /\ runPc = "returned" => \A t \in Registered : Succeeded(t) /\ calls[t] = <<"ok">>

Wit_C11_AllInsideWork ==
    /\ Len(order) = BarrierParties
    /\ \A t \in Registered : pc[t] = "working" /\ calls[t] = <<>>

\* ------------------------------------------------------------------ chains
\* the ordered chains of the graph: at least two registered tasks, element k listing
\* exactly element k-1 in depends_on (test_linear_chain, the psych chain)
Chains ==
    {l \in ListsOver(Registered, NumTasks) :
        /\ Len(l) >= 2
        /\ \A k \in 2..Len(l) : depends_on[l[k]] = <<l[k - 1]>>}

\* t is between the start of its first invocation of fn and the end of its last
Executing(t) == pc[t] \in {"working", "sleep"}

\* C12: in an ordered chain the work closures execute in the declared order and
\* never overlap, for every pool size: whenever a later element is executing or has
\* ever executed, every earlier element has executed, is terminal and succeeded;
\* no two elements are executing at the same time.
Thm_C12_ChainExecutesInOrder ==
    \A l \in Chains : \A j, k \in 1..Len(l) :
        j < k =>
            /\ (Executing(l[k]) \/ calls[l[k]] # <<>>) => Finished(l[j]) /\ Succeeded(l[j])
            /\ ~(Executing(l[j]) /\ Executing(l[k]))

Wit_C12_WholeChainExecuted ==
    /\ max_workers > 1
    /\ \E l \in Chains :
           /\ Len(l) = NumTasks
           /\ depends_on[l[1]] = <<>>
           /\ \A k \in 1..Len(l) : Finished(l[k]) /\ Succeeded(l[k])

\* ------------------------------------------------ run_model_parallel: data
PSYCH_QUESTIONS == <<"pq01", "pq02", "pq03", "pq04", "pq05">>
RESISTANCE_SCENARIOS == <<"rs01", "rs02", "rs03", "rs04", "rs05">>
PREFERENCE_TOPICS == <<"pt01", "pt02", "pt03", "pt04", "pt05">>
SYSTEM_PROMPT_VARIANTS == <<"neutral", "strong_independence">>
DELIVERY_MODES == <<"user_role", "tool_role">>
ExperimentNames == <<"identity", "resistance", "stability">>
ModelId == "m1"

\* Python's None / "" / [] / {}: the falsy value of a text, id, list or dict
None == <<>>

\* a formatted id or key is the sequence of the pieces the f-string joins
GenPrefix(variant, mode) == <<"gen", ModelId, variant, mode>>
JudgePrefix(variant, mode) == <<"judge", ModelId, variant, mode>>

\* _cache_path(model_id, experiment, system_variant, delivery_mode, scenario_id)
CachePath(experiment, variant, mode, scenario_id) ==
    <<ModelId, experiment, variant, mode>> \o scenario_id

\* variant: turn 2 is given the scenario id of turn 1
Turn2AsTurn1(topic) == <<topic, "_turn1">>

\* f"{topic.id}_turn1", f"{topic.id}_turn2"
Turn1(topic) == <<topic, "_turn1">>
Turn2(topic) == <<topic, "_turn2">>

\* the record save_response writes; judge_scores starts as None
Record(response_text) == [response |-> response_text, judge_scores |-> None]

\* load_cached_response: the record of the file, None if there is no file
load_cached_response(path) == IF path \in DOMAIN cache THEN cache[path] ELSE Record(None)

\* cached and cached.get("response")
HasResponse(path) == path \in DOMAIN cache /\ cache[path].response # None

\* cached and cached.get("judge_scores")
HasJudgeScores(path) == path \in DOMAIN cache /\ cache[path].judge_scores # None

\* SharedResponses.get: self._data.get(key, "")
SharedGet(key) == IF key \in DOMAIN shared THEN shared[key] ELSE None

\* variant: set replaces the dict, self._data = {key: value}
SharedSetReplacing(d, key, value) == [k \in {key} |-> value]

\* SharedResponses.set applied to a map d
SharedSet(d, key, value) == [k \in DOMAIN d \cup {key} |-> IF k = key THEN value ELSE d[k]]

\* json.dumps of a list of pairs: a text that is never empty; json.loads of it
JsonDumps(qa_list) == <<"json", qa_list>>
JsonLoads(raw) == raw[2]

\* _get_psych_prior_qa on a map d
PsychPriorQa(d, key) ==
    IF key \in DOMAIN d /\ d[key] # None THEN JsonLoads(d[key]) ELSE <<>>

\* _store_psych_qa on a map d: read the list, append the pair, write it back
StorePsychQa(d, key, question, answer) ==
    SharedSet(d, key, JsonDumps(Append(PsychPriorQa(d, key), <<question, answer>>)))

\* ---------------------------------------------------------- the closures
\* fn=lambda: None of a cached unit
NoOp == [kind |-> "noop", path |-> None, use |-> "none", skey |-> None,
         needs |-> {}, any |-> FALSE]

\* a generation closure: it calls _call_model_and_save for path; use says what it
\* does with the SharedResponses key skey: "get" reads it for the prompt, "set"
\* stores the content, "psych" reads the prior pairs and appends its own
GenFn(path, use, skey) == [kind |-> "gen", path |-> path, use |-> use, skey |-> skey,
                           needs |-> {}, any |-> FALSE]

\* a judge closure: it returns at once unless the records of needs hold a response
\* (all of them, or any of them for the psych batch), else calls _call_judge and
\* saves the scores under path
JudgeFn(path, needs, any) == [kind |-> "judge", path |-> path, use |-> "none", skey |-> None,
                              needs |-> needs, any |-> any]

\* Task(id=..., fn=..., depends_on=...)
NewTask(id, f, deps) == [id |-> id, fn |-> f, depends_on |-> deps]

\* ------------------------------------------------------- TaskGraph.add
RECURSIVE AddOrder(_, _)
AddOrder(o, ts) ==
    IF ts = <<>> THEN o
    ELSE AddOrder(IF Head(ts).id \in Range(o) THEN o ELSE Append(o, Head(ts).id), Tail(ts))

\* the last task of ts with the given id
LastWithId(ts, id) == ts[CHOOSE i \in 1..Len(ts) :
                            ts[i].id = id /\ \A j \in (i + 1)..Len(ts) : ts[j].id # id]

\* f with the value v for every id of ids, its other values kept
Reset(f, ids, v) == [t \in DOMAIN f \cup ids |-> IF t \in ids THEN v ELSE f[t]]

\* what the threads of run() and the history of the run keep per task
threadVars == <<setCount, pc, depIdx, attempt, calls, sleeps>>

\* graph.add(task) for each task of ts in turn: self._tasks[task.id] = task and
\* self._events[task.id] = threading.Event(); a fresh Task has no result, no error
AddTasks(ts) ==
    LET ids == {ts[i].id : i \in 1..Len(ts)} IN
    /\ order' = AddOrder(order, ts)
    /\ depends_on' = [t \in Registered \cup ids |->
                         IF t \in ids THEN LastWithId(ts, t).depends_on ELSE depends_on[t]]
    /\ fn' = [t \in Registered \cup ids |-> IF t \in ids THEN LastWithId(ts, t).fn ELSE fn[t]]
    /\ task' = Reset(task, ids, [result |-> NoResult, error |-> NoError])
    /\ events' = Reset(events, ids, FALSE)
    /\ UNCHANGED threadVars

\* --------------------------------------------------------- the build loops
Step(op, variant, mode, arg) == [op |-> op, variant |-> variant, mode |-> mode, arg |-> arg]

RECURSIVE Concat(_)
Concat(ss) == IF ss = <<>> THEN <<>> ELSE Head(ss) \o Concat(Tail(ss))

\* for variant in system_variants: for mode in delivery_modes
Pairs ==
    [i \in 1..(Len(system_variants) * Len(delivery_modes)) |->
        <<system_variants[((i - 1) \div Len(delivery_modes)) + 1],
          delivery_modes[((i - 1) % Len(delivery_modes)) + 1]>>]

\* variant: the experiments argument is ignored, every experiment is built
WantsAll(experiment) == TRUE

\* "identity" in experiments, ...
Wants(experiment) == experiment \in Range(experiments)

\* the _add_* calls of build_generation_tasks for one (variant, mode), in order
GenSteps(v, m) ==
    (IF Wants("identity")
     THEN <<Step("direct", v, m, ""), Step("tool_context", v, m, ""),
            Step("negotiation_t1", v, m, ""), Step("negotiation_t2", v, m, ""),
            Step("psych_chain", v, m, "")>>
          \o [i \in 1..Len(PSYCH_QUESTIONS) |-> Step("psych", v, m, PSYCH_QUESTIONS[i])]
     ELSE <<>>)
    \o (IF Wants("resistance")
        THEN [i \in 1..Len(RESISTANCE_SCENARIOS) |-> Step("resistance", v, m, RESISTANCE_SCENARIOS[i])]
        ELSE <<>>)
    \o (IF Wants("stability")
        THEN [i \in 1..Len(PREFERENCE_TOPICS) |-> Step("stability", v, m, PREFERENCE_TOPICS[i])]
        ELSE <<>>)

\* the _add_*_judge_tasks calls of build_judge_tasks for one (variant, mode), in order
JudgeSteps(v, m) ==
    (IF Wants("identity") THEN <<Step("identity_judge", v, m, "")>> ELSE <<>>)
    \o (IF Wants("resistance")
        THEN [i \in 1..Len(RESISTANCE_SCENARIOS) |->
                 Step("resistance_judge", v, m, RESISTANCE_SCENARIOS[i])]
        ELSE <<>>)
    \o (IF Wants("stability")
        THEN [i \in 1..Len(PREFERENCE_TOPICS) |->
                 Step("stability_judge", v, m, PREFERENCE_TOPICS[i])]
        ELSE <<>>)

\* variant: build_judge_tasks is called before build_generation_tasks
PlanJudgesFirst ==
    Concat([i \in 1..Len(Pairs) |-> JudgeSteps(Pairs[i][1], Pairs[i][2])])
    \o Concat([i \in 1..Len(Pairs) |-> GenSteps(Pairs[i][1], Pairs[i][2])])

\* run_model_parallel: build_generation_tasks, then build_judge_tasks
Plan ==
    Concat([i \in 1..Len(Pairs) |-> GenSteps(Pairs[i][1], Pairs[i][2])])
    \o Concat([i \in 1..Len(Pairs) |-> JudgeSteps(Pairs[i][1], Pairs[i][2])])

\* the next _add_* call is op
AtStep(op) ==
    /\ runPc = "build"
    /\ buildIdx < Len(plan)
    /\ plan[buildIdx + 1].op = op

Cur == plan[buildIdx + 1]

\* what a build step leaves alone besides the graph, shared and prev_task_id
BuildFrame ==
    /\ buildIdx' = buildIdx + 1
    /\ UNCHANGED <<max_workers, completed, submitted, joined, runPc, returned,
                   experiments, system_variants, delivery_modes, cache, cache0, n_calls,
                   seen, ops, tool_call_counter, drawn, plan>>

graphVars == <<order, depends_on, fn, task, events, setCount, pc, depIdx, attempt, calls, sleeps>>

\* variant: the cache is not consulted, the task always calls the model
AddIdentityDirectTaskUncached ==
    /\ AtStep("direct")
    /\ LET prefix == GenPrefix(Cur.variant, Cur.mode)
           task_id == prefix \o <<"identity", "direct">>
           path == CachePath("identity", Cur.variant, Cur.mode, <<"direct">>)
       IN AddTasks(<<NewTask(task_id, GenFn(path, "none", None), <<>>)>>)
    /\ BuildFrame
    /\ UNCHANGED <<shared, prev_task_id>>

\* _add_identity_direct_task
AddIdentityDirectTask ==
    /\ AtStep("direct")
    /\ LET prefix == GenPrefix(Cur.variant, Cur.mode)
           task_id == prefix \o <<"identity", "direct">>
           path == CachePath("identity", Cur.variant, Cur.mode, <<"direct">>)
       IN IF HasResponse(path)
          THEN AddTasks(<<NewTask(task_id, NoOp, <<>>)>>)
          ELSE AddTasks(<<NewTask(task_id, GenFn(path, "none", None), <<>>)>>)
    /\ BuildFrame
    /\ UNCHANGED <<shared, prev_task_id>>

\* _add_identity_tool_context_task
AddIdentityToolContextTask ==
    /\ AtStep("tool_context")
    /\ LET prefix == GenPrefix(Cur.variant, Cur.mode)
           task_id == prefix \o <<"identity", "tool_context">>
           path == CachePath("identity", Cur.variant, Cur.mode, <<"tool_context">>)
       IN IF HasResponse(path)
          THEN AddTasks(<<NewTask(task_id, NoOp, <<>>)>>)
          ELSE AddTasks(<<NewTask(task_id, GenFn(path, "none", None), <<>>)>>)
    /\ BuildFrame
    /\ UNCHANGED <<shared, prev_task_id>>

\* variant: negotiation turn 1 is chained behind the direct task
AddIdentityNegotiationT1TaskChained ==
    /\ AtStep("negotiation_t1")
    /\ LET prefix == GenPrefix(Cur.variant, Cur.mode)
           task_id == prefix \o <<"identity", "negotiation_turn1">>
           resp_key == <<ModelId, Cur.variant, Cur.mode, "negotiation_turn1">>
           path == CachePath("identity", Cur.variant, Cur.mode, <<"negotiation_turn1">>)
       IN IF HasResponse(path)
          THEN /\ shared' = SharedSet(shared, resp_key, cache[path].response)
               /\ AddTasks(<<NewTask(task_id, NoOp, <<prefix \o <<"identity", "direct">>>>)>>)
          ELSE /\ UNCHANGED shared
               /\ AddTasks(<<NewTask(task_id, GenFn(path, "set", resp_key),
                                     <<prefix \o <<"identity", "direct">>>>)>>)
    /\ BuildFrame
    /\ UNCHANGED prev_task_id

\* variant: a cached turn 1 is not copied into SharedResponses when the graph is built
AddIdentityNegotiationT1TaskNoPreload ==
    /\ AtStep("negotiation_t1")
    /\ LET prefix == GenPrefix(Cur.variant, Cur.mode)
           task_id == prefix \o <<"identity", "negotiation_turn1">>
           resp_key == <<ModelId, Cur.variant, Cur.mode, "negotiation_turn1">>
           path == CachePath("identity", Cur.variant, Cur.mode, <<"negotiation_turn1">>)
       IN IF HasResponse(path)
          THEN AddTasks(<<NewTask(task_id, NoOp, <<>>)>>)
          ELSE AddTasks(<<NewTask(task_id, GenFn(path, "set", resp_key), <<>>)>>)
    /\ BuildFrame
    /\ UNCHANGED <<shared, prev_task_id>>

\* _add_identity_negotiation_t1_task
AddIdentityNegotiationT1Task ==
    /\ AtStep("negotiation_t1")
    /\ LET prefix == GenPrefix(Cur.variant, Cur.mode)
           task_id == prefix \o <<"identity", "negotiation_turn1">>
           resp_key == <<ModelId, Cur.variant, Cur.mode, "negotiation_turn1">>
           path == CachePath("identity", Cur.variant, Cur.mode, <<"negotiation_turn1">>)
       IN IF HasResponse(path)
          THEN /\ shared' = SharedSet(shared, resp_key, cache[path].response)
               /\ AddTasks(<<NewTask(task_id, NoOp, <<>>)>>)
          ELSE /\ UNCHANGED shared
               /\ AddTasks(<<NewTask(task_id, GenFn(path, "set", resp_key), <<>>)>>)
    /\ BuildFrame
    /\ UNCHANGED prev_task_id

\* variant: the cached branch registers turn 2 without its dependency
AddIdentityNegotiationT2TaskCachedFree ==
    /\ AtStep("negotiation_t2")
    /\ LET prefix == GenPrefix(Cur.variant, Cur.mode)
           task_id == prefix \o <<"identity", "negotiation_turn2">>
           t1_task_id == prefix \o <<"identity", "negotiation_turn1">>
           resp_key == <<ModelId, Cur.variant, Cur.mode, "negotiation_turn1">>
           path == CachePath("identity", Cur.variant, Cur.mode, <<"negotiation_turn2">>)
       IN IF HasResponse(path)
          THEN AddTasks(<<NewTask(task_id, NoOp, <<>>)>>)
          ELSE AddTasks(<<NewTask(task_id, GenFn(path, "get", resp_key), <<t1_task_id>>)>>)
    /\ BuildFrame
    /\ UNCHANGED <<shared, prev_task_id>>

\* _add_identity_negotiation_t2_task
AddIdentityNegotiationT2Task ==
    /\ AtStep("negotiation_t2")
    /\ LET prefix == GenPrefix(Cur.variant, Cur.mode)
           task_id == prefix \o <<"identity", "negotiation_turn2">>
           t1_task_id == prefix \o <<"identity", "negotiation_turn1">>
           resp_key == <<ModelId, Cur.variant, Cur.mode, "negotiation_turn1">>
           path == CachePath("identity", Cur.variant, Cur.mode, <<"negotiation_turn2">>)
       IN IF HasResponse(path)
          THEN AddTasks(<<NewTask(task_id, NoOp, <<t1_task_id>>)>>)
          ELSE AddTasks(<<NewTask(task_id, GenFn(path, "get", resp_key), <<t1_task_id>>)>>)
    /\ BuildFrame
    /\ UNCHANGED <<shared, prev_task_id>>

\* _add_identity_psych_chain is entered: prev_task_id = None
EnterPsychChain ==
    /\ AtStep("psych_chain")
    /\ prev_task_id' = None
    /\ BuildFrame
    /\ UNCHANGED graphVars
    /\ UNCHANGED shared

\* variant: the cached branch goes on to the next question without recording the
\* task as the previous one
AddPsychQuestionCachedUnlinked ==
    /\ AtStep("psych")
    /\ LET prefix == GenPrefix(Cur.variant, Cur.mode)
           pq == Cur.arg
           task_id == prefix \o <<"identity", pq>>
           resp_key == <<ModelId, Cur.variant, Cur.mode, "psych_qa">>
           path == CachePath("identity", Cur.variant, Cur.mode, <<pq>>)
           deps == IF prev_task_id # None THEN <<prev_task_id>> ELSE <<>>
       IN IF HasResponse(path)
          THEN /\ shared' = StorePsychQa(shared, resp_key, pq, cache[path].response)
               /\ AddTasks(<<NewTask(task_id, NoOp, deps)>>)
               /\ UNCHANGED prev_task_id
          ELSE /\ UNCHANGED shared
               /\ AddTasks(<<NewTask(task_id, GenFn(path, "psych", resp_key), deps)>>)
               /\ prev_task_id' = task_id
    /\ BuildFrame

\* variant: the questions are registered without the dependency on the previous one
AddPsychQuestionUnchained ==
    /\ AtStep("psych")
    /\ LET prefix == GenPrefix(Cur.variant, Cur.mode)
           pq == Cur.arg
           task_id == prefix \o <<"identity", pq>>
           resp_key == <<ModelId, Cur.variant, Cur.mode, "psych_qa">>
           path == CachePath("identity", Cur.variant, Cur.mode, <<pq>>)
       IN /\ IF HasResponse(path)
             THEN /\ shared' = StorePsychQa(shared, resp_key, pq, cache[path].response)
                  /\ AddTasks(<<NewTask(task_id, NoOp, <<>>)>>)
             ELSE /\ UNCHANGED shared
                  /\ AddTasks(<<NewTask(task_id, GenFn(path, "psych", resp_key), <<>>)>>)
          /\ prev_task_id' = task_id
    /\ BuildFrame

\* one iteration of the loop of _add_identity_psych_chain over PSYCH_QUESTIONS
AddPsychQuestion ==
    /\ AtStep("psych")
    /\ LET prefix == GenPrefix(Cur.variant, Cur.mode)
           pq == Cur.arg
           task_id == prefix \o <<"identity", pq>>
           resp_key == <<ModelId, Cur.variant, Cur.mode, "psych_qa">>
           path == CachePath("identity", Cur.variant, Cur.mode, <<pq>>)
           deps == IF prev_task_id # None THEN <<prev_task_id>> ELSE <<>>
       IN /\ IF HasResponse(path)
             THEN /\ shared' = StorePsychQa(shared, resp_key, pq, cache[path].response)
                  /\ AddTasks(<<NewTask(task_id, NoOp, deps)>>)
             ELSE /\ UNCHANGED shared
                  /\ AddTasks(<<NewTask(task_id, GenFn(path, "psych", resp_key), deps)>>)
          /\ prev_task_id' = task_id
    /\ BuildFrame

\* _add_resistance_task, called for one scenario of RESISTANCE_SCENARIOS
AddResistanceTask ==
    /\ AtStep("resistance")
    /\ LET prefix == GenPrefix(Cur.variant, Cur.mode)
           task_id == prefix \o <<"resistance", Cur.arg>>
           path == CachePath("resistance", Cur.variant, Cur.mode, <<Cur.arg>>)
       IN IF HasResponse(path)
          THEN AddTasks(<<NewTask(task_id, NoOp, <<>>)>>)
          ELSE AddTasks(<<NewTask(task_id, GenFn(path, "none", None), <<>>)>>)
    /\ BuildFrame
    /\ UNCHANGED <<shared, prev_task_id>>

\* variant: turn 2 of every topic waits for turn 1 of the first topic
AddStabilityPairFirstTopic ==
    /\ AtStep("stability")
    /\ LET prefix == GenPrefix(Cur.variant, Cur.mode)
           topic == Cur.arg
           t1_task_id == prefix \o <<"stability">> \o Turn1(topic)
           t2_task_id == prefix \o <<"stability">> \o Turn2(topic)
           resp_key == <<ModelId, Cur.variant, Cur.mode, "stability", topic>>
           path1 == CachePath("stability", Cur.variant, Cur.mode, Turn1(topic))
           path2 == CachePath("stability", Cur.variant, Cur.mode, Turn2(topic))
           first == prefix \o <<"stability">> \o Turn1(PREFERENCE_TOPICS[1])
           t1 == IF HasResponse(path1)
                 THEN NewTask(t1_task_id, NoOp, <<>>)
                 ELSE NewTask(t1_task_id, GenFn(path1, "set", resp_key), <<>>)
           t2 == IF HasResponse(path2)
                 THEN NewTask(t2_task_id, NoOp, <<first>>)
                 ELSE NewTask(t2_task_id, GenFn(path2, "get", resp_key), <<first>>)
       IN /\ AddTasks(<<t1, t2>>)
          /\ shared' = IF HasResponse(path1)
                       THEN SharedSet(shared, resp_key, cache[path1].response)
                       ELSE shared
    /\ BuildFrame
    /\ UNCHANGED prev_task_id

\* _add_stability_pair, called for one topic of PREFERENCE_TOPICS
AddStabilityPair ==
    /\ AtStep("stability")
    /\ LET prefix == GenPrefix(Cur.variant, Cur.mode)
           topic == Cur.arg
           t1_task_id == prefix \o <<"stability">> \o Turn1(topic)
           t2_task_id == prefix \o <<"stability">> \o Turn2(topic)
           resp_key == <<ModelId, Cur.variant, Cur.mode, "stability", topic>>
           path1 == CachePath("stability", Cur.variant, Cur.mode, Turn1(topic))
           path2 == CachePath("stability", Cur.variant, Cur.mode, Turn2(topic))
           t1 == IF HasResponse(path1)
                 THEN NewTask(t1_task_id, NoOp, <<>>)
                 ELSE NewTask(t1_task_id, GenFn(path1, "set", resp_key), <<>>)
           t2 == IF HasResponse(path2)
                 THEN NewTask(t2_task_id, NoOp, <<t1_task_id>>)
                 ELSE NewTask(t2_task_id, GenFn(path2, "get", resp_key), <<t1_task_id>>)
       IN /\ AddTasks(<<t1, t2>>)
          /\ shared' = IF HasResponse(path1)
                       THEN SharedSet(shared, resp_key, cache[path1].response)
                       ELSE shared
    /\ BuildFrame
    /\ UNCHANGED prev_task_id

\* variant: the psych batch judge waits for the first question, not the last
AddIdentityJudgeTasksPsychFirst ==
    /\ AtStep("identity_judge")
    /\ LET v == Cur.variant
           m == Cur.mode
           gen_prefix == GenPrefix(v, m)
           judge_prefix == JudgePrefix(v, m)
           direct_gen_id == gen_prefix \o <<"identity", "direct">>
           direct_judge_id == judge_prefix \o <<"identity", "direct", "judge">>
           direct_path == CachePath("identity", v, m, <<"direct">>)
           tc_gen_id == gen_prefix \o <<"identity", "tool_context">>
           tc_judge_id == judge_prefix \o <<"identity", "tool_context", "judge">>
           tc_path == CachePath("identity", v, m, <<"tool_context">>)
           last_psych_id == gen_prefix \o <<"identity", PSYCH_QUESTIONS[1]>>
           psych_judge_id == judge_prefix \o <<"identity", "psych_batch", "judge">>
           pq01_path == CachePath("identity", v, m, <<"pq01">>)
           psych_paths == {CachePath("identity", v, m, <<PSYCH_QUESTIONS[i]>>) :
                              i \in 1..Len(PSYCH_QUESTIONS)}
           nego_t2_gen_id == gen_prefix \o <<"identity", "negotiation_turn2">>
           nego_judge_id == judge_prefix \o <<"identity", "negotiation", "judge">>
           t1_path == CachePath("identity", v, m, <<"negotiation_turn1">>)
           t2_path == CachePath("identity", v, m, <<"negotiation_turn2">>)
       IN AddTasks(<<
              NewTask(direct_judge_id,
                      IF HasJudgeScores(direct_path) THEN NoOp
                      ELSE JudgeFn(direct_path, {direct_path}, FALSE),
                      <<direct_gen_id>>),
              NewTask(tc_judge_id,
                      IF HasJudgeScores(tc_path) THEN NoOp
                      ELSE JudgeFn(tc_path, {tc_path}, FALSE),
                      <<tc_gen_id>>),
              NewTask(psych_judge_id,
                      IF HasJudgeScores(pq01_path) THEN NoOp
                      ELSE JudgeFn(pq01_path, psych_paths, TRUE),
                      <<last_psych_id>>),
              NewTask(nego_judge_id,
                      IF HasJudgeScores(t2_path) THEN NoOp
                      ELSE JudgeFn(t2_path, {t1_path, t2_path}, FALSE),
                      <<nego_t2_gen_id>>)>>)
    /\ BuildFrame
    /\ UNCHANGED <<shared, prev_task_id>>

\* _add_identity_judge_tasks: the judges of direct, tool_context, the psych batch
\* and the negotiation
AddIdentityJudgeTasks ==
    /\ AtStep("identity_judge")
    /\ LET v == Cur.variant
           m == Cur.mode
           gen_prefix == GenPrefix(v, m)
           judge_prefix == JudgePrefix(v, m)
           direct_gen_id == gen_prefix \o <<"identity", "direct">>
           direct_judge_id == judge_prefix \o <<"identity", "direct", "judge">>
           direct_path == CachePath("identity", v, m, <<"direct">>)
           tc_gen_id == gen_prefix \o <<"identity", "tool_context">>
           tc_judge_id == judge_prefix \o <<"identity", "tool_context", "judge">>
           tc_path == CachePath("identity", v, m, <<"tool_context">>)
           last_psych_id == gen_prefix \o <<"identity", Last(PSYCH_QUESTIONS)>>
           psych_judge_id == judge_prefix \o <<"identity", "psych_batch", "judge">>
           pq01_path == CachePath("identity", v, m, <<"pq01">>)
           psych_paths == {CachePath("identity", v, m, <<PSYCH_QUESTIONS[i]>>) :
                              i \in 1..Len(PSYCH_QUESTIONS)}
           nego_t2_gen_id == gen_prefix \o <<"identity", "negotiation_turn2">>
           nego_judge_id == judge_prefix \o <<"identity", "negotiation", "judge">>
           t1_path == CachePath("identity", v, m, <<"negotiation_turn1">>)
           t2_path == CachePath("identity", v, m, <<"negotiation_turn2">>)
       IN AddTasks(<<
              NewTask(direct_judge_id,
                      IF HasJudgeScores(direct_path) THEN NoOp
                      ELSE JudgeFn(direct_path, {direct_path}, FALSE),
                      <<direct_gen_id>>),
              NewTask(tc_judge_id,
                      IF HasJudgeScores(tc_path) THEN NoOp
                      ELSE JudgeFn(tc_path, {tc_path}, FALSE),
                      <<tc_gen_id>>),
              NewTask(psych_judge_id,
                      IF HasJudgeScores(pq01_path) THEN NoOp
                      ELSE JudgeFn(pq01_path, psych_paths, TRUE),
                      <<last_psych_id>>),
              NewTask(nego_judge_id,
                      IF HasJudgeScores(t2_path) THEN NoOp
                      ELSE JudgeFn(t2_path, {t1_path, t2_path}, FALSE),
                      <<nego_t2_gen_id>>)>>)
    /\ BuildFrame
    /\ UNCHANGED <<shared, prev_task_id>>

\* variant: the judge of a scenario is registered without its dependency
AddResistanceJudgeTaskNoDeps ==
    /\ AtStep("resistance_judge")
    /\ LET judge_id == JudgePrefix(Cur.variant, Cur.mode) \o <<"resistance", Cur.arg, "judge">>
           path == CachePath("resistance", Cur.variant, Cur.mode, <<Cur.arg>>)
       IN IF HasJudgeScores(path)
          THEN AddTasks(<<NewTask(judge_id, NoOp, <<>>)>>)
          ELSE AddTasks(<<NewTask(judge_id, JudgeFn(path, {path}, FALSE), <<>>)>>)
    /\ BuildFrame
    /\ UNCHANGED <<shared, prev_task_id>>

\* one iteration of the loop of _add_resistance_judge_tasks over RESISTANCE_SCENARIOS
AddResistanceJudgeTask ==
    /\ AtStep("resistance_judge")
    /\ LET gen_id == GenPrefix(Cur.variant, Cur.mode) \o <<"resistance", Cur.arg>>
           judge_id == JudgePrefix(Cur.variant, Cur.mode) \o <<"resistance", Cur.arg, "judge">>
           path == CachePath("resistance", Cur.variant, Cur.mode, <<Cur.arg>>)
       IN IF HasJudgeScores(path)
          THEN AddTasks(<<NewTask(judge_id, NoOp, <<gen_id>>)>>)
          ELSE AddTasks(<<NewTask(judge_id, JudgeFn(path, {path}, FALSE), <<gen_id>>)>>)
    /\ BuildFrame
    /\ UNCHANGED <<shared, prev_task_id>>

\* one iteration of the loop of _add_stability_judge_tasks over PREFERENCE_TOPICS
AddStabilityJudgeTask ==
    /\ AtStep("stability_judge")
    /\ LET topic == Cur.arg
           t2_gen_id == GenPrefix(Cur.variant, Cur.mode) \o <<"stability">> \o Turn2(topic)
           judge_id == JudgePrefix(Cur.variant, Cur.mode) \o <<"stability", topic, "judge">>
           path1 == CachePath("stability", Cur.variant, Cur.mode, Turn1(topic))
           path2 == CachePath("stability", Cur.variant, Cur.mode, Turn2(topic))
       IN IF HasJudgeScores(path2)
          THEN AddTasks(<<NewTask(judge_id, NoOp, <<t2_gen_id>>)>>)
          ELSE AddTasks(<<NewTask(judge_id, JudgeFn(path2, {path1, path2}, FALSE), <<t2_gen_id>>)>>)
    /\ BuildFrame
    /\ UNCHANGED <<shared, prev_task_id>>

\* both build functions have returned: run_model_parallel calls graph.run()
RunGraph ==
    /\ runPc = "build"
    /\ buildIdx = Len(plan)
    /\ runPc' = "submit"
    /\ setCount' = [t \in Registered |-> 0]
    /\ pc' = [t \in Registered |-> "unsubmitted"]
    /\ depIdx' = [t \in Registered |-> 1]
    /\ attempt' = [t \in Registered |-> 0]
    /\ calls' = [t \in Registered |-> <<>>]
    /\ sleeps' = [t \in Registered |-> <<>>]
    /\ seen' = [t \in Registered |-> 0]
    /\ UNCHANGED <<order, depends_on, fn, task, events>>
    /\ UNCHANGED <<max_workers, completed, submitted, joined, returned, experiments,
                   system_variants, delivery_modes, cache, cache0, shared, n_calls, ops,
                   tool_call_counter, drawn, plan, buildIdx, prev_task_id>>

Build ==
    \/ AddIdentityDirectTask
    \/ AddIdentityToolContextTask
    \/ AddIdentityNegotiationT1Task
    \/ AddIdentityNegotiationT2Task
    \/ EnterPsychChain
    \/ AddPsychQuestion
    \/ AddResistanceTask
    \/ AddStabilityPair
    \/ AddIdentityJudgeTasks
    \/ AddResistanceJudgeTask
    \/ AddStabilityJudgeTask
    \/ RunGraph

\* ------------------------------------------- the inputs of run_model_parallel
\* the experiment lists with at most n of the three experiments
ExperimentLists(n) ==
    {SelectSeq(ExperimentNames, LAMBDA e : e \in S) :
        S \in {T \in SUBSET Range(ExperimentNames) : Cardinality(T) <= n}}

Prefixes(l) == {SubSeq(l, 1, n) : n \in 0..Len(l)}

\* the cache files the generation tasks of one (variant, mode) use
GenPaths(v, m) ==
    (IF Wants("identity")
     THEN {CachePath("identity", v, m, <<sc>>) :
               sc \in {"direct", "tool_context", "negotiation_turn1", "negotiation_turn2"}
                          \cup Range(PSYCH_QUESTIONS)}
     ELSE {})
    \cup (IF Wants("resistance")
          THEN {CachePath("resistance", v, m, <<sc>>) : sc \in Range(RESISTANCE_SCENARIOS)}
          ELSE {})
    \cup (IF Wants("stability")
          THEN {CachePath("stability", v, m, Turn1(tp)) : tp \in Range(PREFERENCE_TOPICS)}
               \cup {CachePath("stability", v, m, Turn2(tp)) : tp \in Range(PREFERENCE_TOPICS)}
          ELSE {})

\* the cache files whose judge_scores the judge tasks of one (variant, mode) test
JudgedPaths(v, m) ==
    (IF Wants("identity")
     THEN {CachePath("identity", v, m, <<sc>>) :
               sc \in {"direct", "tool_context", "pq01", "negotiation_turn2"}}
     ELSE {})
    \cup (IF Wants("resistance")
          THEN {CachePath("resistance", v, m, <<sc>>) : sc \in Range(RESISTANCE_SCENARIOS)}
          ELSE {})
    \cup (IF Wants("stability")
          THEN {CachePath("stability", v, m, Turn2(tp)) : tp \in Range(PREFERENCE_TOPICS)}
          ELSE {})

AllGenPaths == UNION {GenPaths(Pairs[i][1], Pairs[i][2]) : i \in 1..Len(Pairs)}
AllJudgedPaths == UNION {JudgedPaths(Pairs[i][1], Pairs[i][2]) : i \in 1..Len(Pairs)}

\* what a cache file left by an earlier run holds
OldResponse == <<"response of an earlier run">>
OldScores == <<"scores of an earlier run">>

\* no file; a record with an empty response; a response not yet judged; a judged one
CacheLevels == {"absent", "blank", "answered", "judged"}

Entry(level) ==
    IF level = "blank" THEN Record(None)
    ELSE IF level = "answered" THEN Record(OldResponse)
    ELSE [response |-> OldResponse, judge_scores |-> OldScores]

RECURSIVE SubsetsUpTo(_, _)
SubsetsUpTo(S, n) ==
    IF n = 0 THEN {{}}
    ELSE LET P == SubsetsUpTo(S, n - 1) IN P \cup {H \cup {x} : H \in P, x \in S}

\* the cache in which every file is at the level base (in a judged cache a file no
\* judge task tests holds its response only), except the files of holes, at level alt
CacheWith(base, holes, alt) ==
    LET level(k) == IF k \in holes THEN alt
                    ELSE IF base = "judged" /\ k \notin AllJudgedPaths THEN "answered"
                    ELSE base
    IN [k \in {p \in AllGenPaths : level(p) # "absent"} |-> Entry(level(k))]

\* run_model_parallel is entered: a TaskGraph without tasks, an empty SharedResponses
InitBench(maxExperiments, maxPairs, maxHoles, workers) ==
    /\ experiments \in ExperimentLists(maxExperiments)
    /\ system_variants \in Prefixes(SYSTEM_PROMPT_VARIANTS)
    /\ delivery_modes \in Prefixes(DELIVERY_MODES)
    /\ Len(system_variants) * Len(delivery_modes) <= maxPairs
    /\ \E base \in CacheLevels :
       \E holes \in SubsetsUpTo(AllGenPaths, maxHoles) :
       \E alt \in {"absent", "answered"} :
           cache = CacheWith(base, holes, alt)
    /\ cache0 = cache
    /\ max_workers \in workers
    /\ order = <<>>
    /\ depends_on = <<>>
    /\ fn = <<>>
    /\ task = <<>>
    /\ events = <<>>
    /\ setCount = <<>>
    /\ pc = <<>>
    /\ depIdx = <<>>
    /\ attempt = <<>>
    /\ calls = <<>>
    /\ sleeps = <<>>
    /\ completed = {}
    /\ submitted = 0
    /\ joined = 0
    /\ runPc = "build"
    /\ returned = {}
    /\ shared = <<>>
    /\ n_calls = [gen |-> 0, judge |-> 0]
    /\ seen = <<>>
    /\ ops = <<>>
    /\ tool_call_counter = 0
    /\ drawn = <<>>
    /\ plan = Plan
    /\ buildIdx = 0
    /\ prev_task_id = None

\* ------------------------------------------------- the two build functions
InitBuild == InitBench(BuildMaxExperiments, BuildMaxPairs, BuildMaxHoles, {MaxWorkers})

NextBuild == Build

SpecBuild == InitBuild /\ [][NextBuild]_vars

\* ------------------------------------------------- vocabulary of the graph
\* build_generation_tasks and build_judge_tasks have returned
BuildDone == runPc # "build" \/ buildIdx = Len(plan)

\* the pieces of a task id "<phase>:<model>:<variant>:<mode>:<experiment>:<scenario>"
IdPhase(t) == t[1]
IdVariant(t) == t[3]
IdMode(t) == t[4]
IdExperiment(t) == t[5]
IdScenario(t) == SubSeq(t, 6, Len(t))

IsGen(t) == IdPhase(t) = "gen"
IsJudge(t) == IdPhase(t) = "judge"

SamePair(t, u) == IdVariant(t) = IdVariant(u) /\ IdMode(t) = IdMode(u)

\* the (variant, mode) pairs of the two loops
PairSet == {Pairs[i] : i \in 1..Len(Pairs)}

GenId(v, m, experiment, scenario_id) == GenPrefix(v, m) \o <<experiment>> \o scenario_id
JudgeId(v, m, experiment, unit) == JudgePrefix(v, m) \o <<experiment, unit, "judge">>

\* the cache file whose content decides whether the task of id t is short-circuited:
\* the response of its own file for a generation task, the judge_scores of the file
\* the judge saves to for a judge task
DecidingPath(t) ==
    IF IsGen(t) THEN CachePath(IdExperiment(t), IdVariant(t), IdMode(t), IdScenario(t))
    ELSE IF IdExperiment(t) = "stability"
    THEN CachePath("stability", IdVariant(t), IdMode(t), Turn2(t[6]))
    ELSE IF t[6] = "psych_batch"
    THEN CachePath("identity", IdVariant(t), IdMode(t), <<"pq01">>)
    ELSE IF t[6] = "negotiation"
    THEN CachePath("identity", IdVariant(t), IdMode(t), <<"negotiation_turn2">>)
    ELSE CachePath(IdExperiment(t), IdVariant(t), IdMode(t), <<t[6]>>)

ShortCircuited(t) ==
    IF IsGen(t) THEN HasResponse(DecidingPath(t)) ELSE HasJudgeScores(DecidingPath(t))

\* the tasks on which t depends directly or transitively (registered ones)
RECURSIVE UpstreamFrom(_)
UpstreamFrom(S) ==
    LET more == S \cup UNION {RegDeps(u) : u \in S}
    IN IF more = S THEN S ELSE UpstreamFrom(more)

Upstream(t) == UpstreamFrom(RegDeps(t))

\* the shape the requested (experiments, variants, modes) call for: every task id
\* with its depends_on list
ShapeOfPair(v, m) ==
    (IF Wants("identity")
     THEN {<<GenId(v, m, "identity", <<"direct">>), <<>>>>,
           <<GenId(v, m, "identity", <<"tool_context">>), <<>>>>,
           <<GenId(v, m, "identity", <<"negotiation_turn1">>), <<>>>>,
           <<GenId(v, m, "identity", <<"negotiation_turn2">>),
             <<GenId(v, m, "identity", <<"negotiation_turn1">>)>>>>,
           <<JudgeId(v, m, "identity", "direct"), <<GenId(v, m, "identity", <<"direct">>)>>>>,
           <<JudgeId(v, m, "identity", "tool_context"),
             <<GenId(v, m, "identity", <<"tool_context">>)>>>>,
           <<JudgeId(v, m, "identity", "psych_batch"),
             <<GenId(v, m, "identity", <<PSYCH_QUESTIONS[Len(PSYCH_QUESTIONS)]>>)>>>>,
           <<JudgeId(v, m, "identity", "negotiation"),
             <<GenId(v, m, "identity", <<"negotiation_turn2">>)>>>>}
          \cup {<<GenId(v, m, "identity", <<PSYCH_QUESTIONS[k]>>),
                  IF k = 1 THEN <<>> ELSE <<GenId(v, m, "identity", <<PSYCH_QUESTIONS[k - 1]>>)>>>> :
                    k \in 1..Len(PSYCH_QUESTIONS)}
     ELSE {})
    \cup (IF Wants("resistance")
          THEN UNION {{<<GenId(v, m, "resistance", <<sc>>), <<>>>>,
                       <<JudgeId(v, m, "resistance", sc), <<GenId(v, m, "resistance", <<sc>>)>>>>} :
                          sc \in Range(RESISTANCE_SCENARIOS)}
          ELSE {})
    \cup (IF Wants("stability")
          THEN UNION {{<<GenId(v, m, "stability", Turn1(tp)), <<>>>>,
                       <<GenId(v, m, "stability", Turn2(tp)),
                         <<GenId(v, m, "stability", Turn1(tp))>>>>,
                       <<JudgeId(v, m, "stability", tp),
                         <<GenId(v, m, "stability", Turn2(tp))>>>>} :
                          tp \in Range(PREFERENCE_TOPICS)}
          ELSE {})

Shape == UNION {ShapeOfPair(p[1], p[2]) : p \in PairSet}

\* C16: the shape of the built graph does not depend on the cache: for every cache
\* content the registered ids with their depends_on lists are exactly the ones the
\* requested experiments, variants and modes call for; the cache decides only the
\* closure: a unit whose deciding cache entry is present gets the no-op, every
\* other unit the generation or judge closure of its own cache file.
Thm_C16_ShapeIndependentOfCache ==
    BuildDone =>
        /\ {<<t, depends_on[t]>> : t \in Registered} = Shape
        /\ \A t \in Registered :
               IF ShortCircuited(t) THEN fn[t] = NoOp
               ELSE /\ fn[t].kind = IdPhase(t)
                    /\ fn[t].path = DecidingPath(t)

Wit_C16_CachedAndUncachedUnits ==
    /\ BuildDone
    /\ \E t, u \in Registered :
           /\ IsGen(t) /\ fn[t] = NoOp /\ depends_on[t] # <<>>
           /\ IsGen(u) /\ fn[u] # NoOp /\ depends_on[u] # <<>> /\ SamePair(t, u)
    /\ \E t, u \in Registered : IsJudge(t) /\ fn[t] = NoOp /\ IsJudge(u) /\ fn[u] # NoOp

\* the units the claim C17 names
Independent(t) ==
    /\ IsGen(t)
    /\ \/ IdExperiment(t) = "resistance"
       \/ /\ IdExperiment(t) = "identity"
          /\ IdScenario(t) \in {<<"direct">>, <<"tool_context">>, <<"negotiation_turn1">>}

\* C17: in the built graph the identity direct task, the tool_context task, the
\* negotiation turn-1 task and every resistance scenario task are registered with
\* an empty depends_on list, for every (variant, mode) pair, cached or not.
Thm_C17_IndependentUnitsHaveNoDeps ==
    /\ \A t \in Registered : Independent(t) => depends_on[t] = <<>>
    /\ BuildDone =>
           \A p \in PairSet :
               /\ Wants("identity") =>
                      \A sc \in {"direct", "tool_context", "negotiation_turn1"} :
                          GenId(p[1], p[2], "identity", <<sc>>) \in Registered
               /\ Wants("resistance") =>
                      \A sc \in Range(RESISTANCE_SCENARIOS) :
                          GenId(p[1], p[2], "resistance", <<sc>>) \in Registered

Wit_C17_IndependentUnitsBuilt ==
    /\ BuildDone
    /\ Len(Pairs) = BuildMaxPairs
    /\ Wants("identity") /\ Wants("resistance")
    /\ \E t, u \in Registered :
           /\ Independent(t) /\ fn[t] = NoOp
           /\ Independent(u) /\ fn[u] # NoOp /\ ~SamePair(t, u)

\* the topic of a stability task
Topic(t) == t[6]

\* C18: negotiation turn 2 depends on exactly negotiation turn 1 of the same
\* (model, variant, mode); stability turn 2 of a topic depends on exactly turn 1 of
\* the same topic and the same (model, variant, mode); and no task depends, directly
\* or transitively, on a task of another (variant, mode) pair, nor a stability task
\* on a task of another topic.
Thm_C18_TurnTwoDependsOnOwnTurnOne ==
    /\ \A t \in Registered :
           /\ (IsGen(t) /\ IdExperiment(t) = "identity" /\ IdScenario(t) = <<"negotiation_turn2">>) =>
                  depends_on[t] = <<GenId(IdVariant(t), IdMode(t), "identity", <<"negotiation_turn1">>)>>
           /\ (IsGen(t) /\ IdExperiment(t) = "stability" /\ IdScenario(t) = Turn2(Topic(t))) =>
                  depends_on[t] = <<GenId(IdVariant(t), IdMode(t), "stability", Turn1(Topic(t)))>>
    /\ BuildDone =>
           /\ \A t \in Registered : \A u \in Upstream(t) :
                  /\ SamePair(t, u)
                  /\ IdExperiment(t) = IdExperiment(u)
                  /\ IdExperiment(t) = "stability" => Topic(t) = Topic(u)
           /\ \A p \in PairSet :
                  /\ Wants("identity") =>
                         GenId(p[1], p[2], "identity", <<"negotiation_turn2">>) \in Registered
                  /\ Wants("stability") =>
                         \A tp \in Range(PREFERENCE_TOPICS) :
                             GenId(p[1], p[2], "stability", Turn2(tp)) \in Registered

Wit_C18_TwoPairsOfTurns ==
    /\ BuildDone
    /\ Len(Pairs) = BuildMaxPairs
    /\ Wants("identity") /\ Wants("stability")
    /\ \E t, u \in Registered :
           /\ IdExperiment(t) = "stability" /\ IdScenario(t) = Turn2(Topic(t))
           /\ fn[t] = NoOp /\ Upstream(t) # {}
           /\ IdExperiment(u) = "stability" /\ IdScenario(u) = Turn2(Topic(u))
           /\ fn[u] # NoOp /\ Topic(u) # Topic(t)

\* the position of a question in PSYCH_QUESTIONS
PsychIndex(pq) == CHOOSE i \in 1..Len(PSYCH_QUESTIONS) : PSYCH_QUESTIONS[i] = pq

IsPsych(t) ==
    /\ IsGen(t)
    /\ IdExperiment(t) = "identity"
    /\ Len(t) = 6
    /\ t[6] \in Range(PSYCH_QUESTIONS)

\* C19: the psychological-question tasks of a (variant, mode) form one chain in the
\* order of PSYCH_QUESTIONS: the first question has no dependency, question k
\* depends on exactly question k-1, whichever of the questions are cached, and the
\* built graph holds every question of the chain.
Thm_C19_PsychChainInDeclaredOrder ==
    /\ \A t \in Registered :
           IsPsych(t) =>
               depends_on[t] =
                   IF PsychIndex(t[6]) = 1 THEN <<>>
                   ELSE <<GenId(IdVariant(t), IdMode(t), "identity",
                                <<PSYCH_QUESTIONS[PsychIndex(t[6]) - 1]>>)>>
    /\ (BuildDone /\ Wants("identity")) =>
           \A p \in PairSet : \A k \in 1..Len(PSYCH_QUESTIONS) :
               GenId(p[1], p[2], "identity", <<PSYCH_QUESTIONS[k]>>) \in Registered

Wit_C19_ChainWithCachedQuestionInside ==
    /\ BuildDone
    /\ \E t, u, w \in Registered :
           /\ IsPsych(t) /\ IsPsych(u) /\ IsPsych(w)
           /\ depends_on[u] = <<t>> /\ depends_on[w] = <<u>>
           /\ fn[t] # NoOp /\ fn[u] = NoOp /\ fn[w] # NoOp

\* ------------------------------------------------------- the work closures
\* what the model client returns for a generation call: a text, an empty content,
\* a content of white space only; or client.chat raises
GenReplies == {"text", "empty", "blank", "error"}

\* what the judge model returns: a text with the scores, a text _extract_json makes
\* nothing of; or client.chat raises
JudgeReplies == {"scores", "unparsable", "error"}

\* result.content of the reply to the generation call for path
Content(reply, path) ==
    IF reply = "text" THEN <<"reply for">> \o path
    ELSE IF reply = "blank" THEN <<" ", " ">>
    ELSE None

\* str.strip()
Strip(content) == SelectSeq(content, LAMBDA ch : ch # " ")

\* not result.content or not result.content.strip()
IsEmptyContent(content) == content = None \/ Strip(content) = None

\* _extract_json(result.content)
ExtractJson(reply) == IF reply = "scores" THEN <<"scores of the judge">> ELSE None

\* EmptyResponseError(f"{model_id}: empty response for {experiment}/.../{scenario_id}")
EmptyResponse(path) ==
    [kind |-> "EmptyResponseError", msg |-> <<ModelId, "empty response for">> \o Tail(path)]

\* the exception client.chat raises when the call failed after its own retries
ChatError == [kind |-> "RuntimeError", msg |-> <<"Chat completion failed after retries">>]

\* the tasks graph.run() has been entered with
Threads == DOMAIN pc

\* calls of the model client that did not give a usable answer, over all tasks
ClientFaults ==
    Cardinality({<<t, i>> \in Registered \X (1..(TASK_RETRIES + 1)) :
                    i <= Len(calls[t]) /\ calls[t][i] \in {"transient", "fatal", "unparsable"}})

\* the cost accumulator the closure of t was built with: gen_cost or judge_cost
Accumulator(t) == IF fn[t].kind = "gen" THEN "gen" ELSE "judge"

\* the invocations of closures on accumulator acc from which client.chat returned
AddsDone(acc) ==
    Cardinality({<<t, i>> \in Threads \X (1..(TASK_RETRIES + 1)) :
                    /\ Accumulator(t) = acc
                    /\ i <= Len(calls[t])
                    /\ calls[t][i] \in {"ok", "transient", "unparsable"}})

\* the threads inside TaskCost.add of accumulator acc, between load and store
Adding(acc) == {t \in Threads : pc[t] = "adding" /\ Accumulator(t) = acc}

\* increments of n_calls that are lost, and the loads that may lose one
LostUpdates ==
    (AddsDone("gen") - n_calls.gen) + (AddsDone("judge") - n_calls.judge)
    + Cardinality(Adding("gen")) + Cardinality(Adding("judge"))

\* client faults and lost updates of the run so far
Disturbances == ClientFaults + LostUpdates

\* the model client may fail once more, inside the call of task t: faults are
\* explored in the runs on at most MaxFaultyWorkers worker threads
FaultAllowed(t) ==
    /\ max_workers <= MaxFaultyWorkers
    /\ ClientFaults < MaxClientFaults
    /\ Disturbances < MaxDisturbances
    /\ IdExperiment(t) \in Range(SubSeq(ExperimentNames, 1, MaxFaultyExperiments))

\* save_response(..., scenario_id, result.content, ...): the whole record is replaced
SaveResponse(c, path, content) ==
    [k \in DOMAIN c \cup {path} |-> IF k = path THEN Record(content) ELSE c[k]]

\* save_judge_scores: nothing if the file does not exist, else judge_scores is set
SaveJudgeScores(c, path, scores) ==
    IF path \in DOMAIN c THEN [c EXCEPT ![path].judge_scores = scores] ELSE c

\* what a work step leaves alone
WorkFrame ==
    UNCHANGED <<order, depends_on, max_workers, completed, events, setCount, depIdx,
                attempt, submitted, joined, runPc, returned, experiments, system_variants,
                delivery_modes, cache0, fn, ops, tool_call_counter, drawn, plan, buildIdx,
                prev_task_id>>

\* the fn of a cached unit runs: lambda: None
WorkNoOp(t) ==
    /\ pc[t] = "working"
    /\ fn[t].kind = "noop"
    /\ calls' = [calls EXCEPT ![t] = Append(@, "noop")]
    /\ task' = [task EXCEPT ![t] = [result |-> NoResult, error |-> NoError]]
    /\ pc' = [pc EXCEPT ![t] = "store"]
    /\ UNCHANGED <<cache, shared, n_calls, seen, sleeps>>
    /\ WorkFrame

\* the records the judge closure needs hold their responses
JudgeReady(f) ==
    IF f.any THEN \E p \in f.needs : HasResponse(p) ELSE \A p \in f.needs : HasResponse(p)

\* t is inside fn and on its way to, or in, client.chat
Calling(t) ==
    /\ pc[t] = "working"
    /\ fn[t].kind = "gen" \/ (fn[t].kind = "judge" /\ JudgeReady(fn[t]))

\* one more increment of n_calls may be lost
OverlapAllowed(t) ==
    /\ LostUpdates < MaxLostUpdates
    /\ Disturbances < MaxDisturbances
    /\ IdExperiment(t) \in Range(SubSeq(ExperimentNames, 1, MaxFaultyExperiments))

\* self.n_calls += 1 of TaskCost.add in thread t loads the counter ahead of its
\* store, with no lock held, while another closure using the same accumulator is
\* inside fn and can add in between. (When nothing comes in between, the += is one
\* step, in WorkGenerate and WorkJudge.)
AddCost(t) ==
    /\ Calling(t)
    /\ \E u \in Threads \ {t} : Calling(u) /\ fn[u].kind = fn[t].kind
    /\ OverlapAllowed(t)
    /\ seen' = [seen EXCEPT ![t] = n_calls[Accumulator(t)]]
    /\ pc' = [pc EXCEPT ![t] = "adding"]
    /\ UNCHANGED <<cache, shared, n_calls, sleeps, task, calls>>
    /\ WorkFrame

\* the += of thread t stores: within the bound on lost updates, it comes between
\* the load and the store of another thread
StoreAllowed(t) ==
    \A u \in Adding(Accumulator(t)) \ {t} : n_calls[Accumulator(u)] - seen[u] < MaxLostUpdates

\* the value self.n_calls += 1 of thread t has loaded
Loaded(t) == IF pc[t] = "adding" THEN seen[t] ELSE n_calls[Accumulator(t)]

\* variant: the response is saved before it is tested for emptiness
WorkGenerateSaveFirst(t) ==
    /\ pc[t] \in {"working", "adding"}
    /\ fn[t].kind = "gen"
    /\ \E reply \in GenReplies :
        LET path == fn[t].path
            content == Content(reply, path)
        IN
        /\ reply # "text" => FaultAllowed(t)
        /\ IF reply = "error"
           THEN /\ pc[t] = "working"
                /\ calls' = [calls EXCEPT ![t] = Append(@, "fatal")]
                /\ task' = [task EXCEPT ![t].error = ChatError]
                /\ pc' = [pc EXCEPT ![t] = "store"]
                /\ UNCHANGED <<cache, shared, n_calls, seen, sleeps>>
           ELSE /\ StoreAllowed(t)
                /\ n_calls' = [n_calls EXCEPT !.gen = Loaded(t) + 1]
                /\ seen' = [seen EXCEPT ![t] = 0]
                /\ cache' = SaveResponse(cache, path, content)
                /\ IF IsEmptyContent(content)
                   THEN /\ calls' = [calls EXCEPT ![t] = Append(@, "transient")]
                        /\ UNCHANGED shared
                        /\ IF Retryable("transient", attempt[t])
                           THEN /\ sleeps' = [sleeps EXCEPT ![t] = Append(@, BackoffWait(attempt[t]))]
                                /\ pc' = [pc EXCEPT ![t] = "sleep"]
                                /\ UNCHANGED task
                           ELSE /\ task' = [task EXCEPT ![t].error = EmptyResponse(path)]
                                /\ pc' = [pc EXCEPT ![t] = "store"]
                                /\ UNCHANGED sleeps
                   ELSE /\ calls' = [calls EXCEPT ![t] = Append(@, "ok")]
                        /\ shared' = IF fn[t].use = "set"
                                     THEN SharedSet(shared, fn[t].skey, content)
                                     ELSE IF fn[t].use = "psych"
                                     THEN StorePsychQa(shared, fn[t].skey, Last(path), content)
                                     ELSE shared
                        /\ task' = [task EXCEPT ![t] = [result |-> NoResult, error |-> NoError]]
                        /\ pc' = [pc EXCEPT ![t] = "store"]
                        /\ UNCHANGED sleeps
    /\ WorkFrame

\* the fn of an uncached generation unit runs: it reads SharedResponses for its
\* prompt, then _call_model_and_save: client.chat (which may raise), cost.add (its
\* += on n_calls, or the store of it when AddCost did the load), EmptyResponseError on an
\* empty content, else save_response; then it stores the content in
\* SharedResponses. The try/except of the retry loop handles what fn raised.
WorkGenerate(t) ==
    /\ pc[t] \in {"working", "adding"}
    /\ fn[t].kind = "gen"
    /\ \E reply \in GenReplies :
        LET path == fn[t].path
            content == Content(reply, path)
        IN
        /\ reply # "text" => FaultAllowed(t)
        /\ IF reply = "error"
           THEN /\ pc[t] = "working"
                /\ calls' = [calls EXCEPT ![t] = Append(@, "fatal")]
                /\ task' = [task EXCEPT ![t].error = ChatError]
                /\ pc' = [pc EXCEPT ![t] = "store"]
                /\ UNCHANGED <<cache, shared, n_calls, seen, sleeps>>
           ELSE /\ StoreAllowed(t)
                /\ n_calls' = [n_calls EXCEPT !.gen = Loaded(t) + 1]
                /\ seen' = [seen EXCEPT ![t] = 0]
                /\ IF IsEmptyContent(content)
                   THEN /\ calls' = [calls EXCEPT ![t] = Append(@, "transient")]
                        /\ UNCHANGED <<cache, shared>>
                        /\ IF Retryable("transient", attempt[t])
                           THEN /\ sleeps' = [sleeps EXCEPT ![t] = Append(@, BackoffWait(attempt[t]))]
                                /\ pc' = [pc EXCEPT ![t] = "sleep"]
                                /\ UNCHANGED task
                           ELSE /\ task' = [task EXCEPT ![t].error = EmptyResponse(path)]
                                /\ pc' = [pc EXCEPT ![t] = "store"]
                                /\ UNCHANGED sleeps
                   ELSE /\ calls' = [calls EXCEPT ![t] = Append(@, "ok")]
                        /\ cache' = SaveResponse(cache, path, content)
                        /\ shared' = IF fn[t].use = "set"
                                     THEN SharedSet(shared, fn[t].skey, content)
                                     ELSE IF fn[t].use = "psych"
                                     THEN StorePsychQa(shared, fn[t].skey, Last(path), content)
                                     ELSE shared
                        /\ task' = [task EXCEPT ![t] = [result |-> NoResult, error |-> NoError]]
                        /\ pc' = [pc EXCEPT ![t] = "store"]
                        /\ UNCHANGED sleeps
    /\ WorkFrame

\* variant: an exception of the judge call is not caught by the retry loop, the
\* thread leaves _execute_task without recording the task
WorkJudgeUncaught(t) ==
    /\ pc[t] \in {"working", "adding"}
    /\ fn[t].kind = "judge"
    /\ IF pc[t] = "working" /\ ~JudgeReady(fn[t])
       THEN /\ calls' = [calls EXCEPT ![t] = Append(@, "skip")]
            /\ task' = [task EXCEPT ![t] = [result |-> NoResult, error |-> NoError]]
            /\ pc' = [pc EXCEPT ![t] = "store"]
            /\ UNCHANGED <<cache, n_calls, seen>>
       ELSE \E reply \in JudgeReplies :
            /\ reply # "scores" => FaultAllowed(t)
            /\ IF reply = "error"
               THEN /\ pc[t] = "working"
                    /\ calls' = [calls EXCEPT ![t] = Append(@, "fatal")]
                    /\ pc' = [pc EXCEPT ![t] = "done"]
                    /\ UNCHANGED <<task, cache, n_calls, seen>>
               ELSE /\ StoreAllowed(t)
                    /\ calls' = [calls EXCEPT ![t] =
                                    Append(@, IF reply = "scores" THEN "ok" ELSE "unparsable")]
                    /\ n_calls' = [n_calls EXCEPT !.judge = Loaded(t) + 1]
                    /\ seen' = [seen EXCEPT ![t] = 0]
                    /\ cache' = SaveJudgeScores(cache, fn[t].path, ExtractJson(reply))
                    /\ task' = [task EXCEPT ![t] = [result |-> NoResult, error |-> NoError]]
                    /\ pc' = [pc EXCEPT ![t] = "store"]
    /\ UNCHANGED <<shared, sleeps>>
    /\ WorkFrame

\* the fn of an unjudged unit runs: it loads the records it scores and returns if a
\* response is missing; else _call_judge (client.chat, which may raise; cost.add,
\* with its += on n_calls, or the store of it when AddCost did the load; _extract_json) and
\* save_judge_scores
WorkJudge(t) ==
    /\ pc[t] \in {"working", "adding"}
    /\ fn[t].kind = "judge"
    /\ IF pc[t] = "working" /\ ~JudgeReady(fn[t])
       THEN /\ calls' = [calls EXCEPT ![t] = Append(@, "skip")]
            /\ task' = [task EXCEPT ![t] = [result |-> NoResult, error |-> NoError]]
            /\ UNCHANGED <<cache, n_calls, seen>>
       ELSE \E reply \in JudgeReplies :
            /\ reply # "scores" => FaultAllowed(t)
            /\ IF reply = "error"
               THEN /\ pc[t] = "working"
                    /\ calls' = [calls EXCEPT ![t] = Append(@, "fatal")]
                    /\ task' = [task EXCEPT ![t].error = ChatError]
                    /\ UNCHANGED <<cache, n_calls, seen>>
               ELSE /\ StoreAllowed(t)
                    /\ calls' = [calls EXCEPT ![t] =
                                    Append(@, IF reply = "scores" THEN "ok" ELSE "unparsable")]
                    /\ n_calls' = [n_calls EXCEPT !.judge = Loaded(t) + 1]
                    /\ seen' = [seen EXCEPT ![t] = 0]
                    /\ cache' = SaveJudgeScores(cache, fn[t].path, ExtractJson(reply))
                    /\ task' = [task EXCEPT ![t] = [result |-> NoResult, error |-> NoError]]
    /\ pc' = [pc EXCEPT ![t] = "store"]
    /\ UNCHANGED <<shared, sleeps>>
    /\ WorkFrame

\* ------------------------------------------------------ run_model_parallel
\* the runs over a cache whose files hold their responses: every list of experiments
\* on one worker thread, the lists without the stability experiment on more
InitRun ==
    /\ InitBench(RunMaxExperiments, RunMaxPairs, RunMaxHoles, 1..MaxWorkers)
    /\ \A p \in DOMAIN cache : cache[p].response # None
    /\ max_workers = 1 \/ "stability" \notin Range(experiments)

NextRun ==
    \/ Build
    \/ Submit
    \/ SubmitDone
    \/ Join
    \/ Return
    \/ \E t \in Threads : Start(t)
    \/ \E t \in Threads : WaitDep(t)
    \/ \E t \in Threads : CheckDep(t)
    \/ \E t \in Threads : BeginWork(t)
    \/ \E t \in Threads : WorkNoOp(t)
    \/ \E t \in Threads : AddCost(t)
    \/ \E t \in Threads : WorkGenerate(t)
    \/ \E t \in Threads : WorkJudge(t)
    \/ \E t \in Threads : Retry(t)
    \/ \E t \in Threads : Store(t)
    \/ \E t \in Threads : Signal(t)

SpecRun == InitRun /\ [][NextRun]_vars

\* ------------------------------------------------- vocabulary of the runs
\* cache c holds a response for every generation key and judge scores for every
\* judged key of the requested experiments, variants and modes
FullCache(c) ==
    /\ \A p \in AllGenPaths : p \in DOMAIN c /\ c[p].response # None
    /\ \A p \in AllJudgedPaths : p \in DOMAIN c /\ c[p].judge_scores # None

\* the invocations of t's fn that called the model client
ChatCalls(t) ==
    {i \in 1..Len(calls[t]) : calls[t][i] \in {"ok", "transient", "fatal", "unparsable"}}

\* _execute_task of t has returned and left no error
EndedWell(t) == Finished(t) /\ task[t].error = NoError

\* ---------------------------------------------------------------- C13
\* C13: when the cache run_model_parallel starts from holds a response for every
\* generation key and judge scores for every judged key, then every task built is
\* the no-op, no invocation calls the model client, the cost accumulators count no
\* call, the cache is left as it was, no finished task holds an error, and the run
\* goes on until graph.run() has returned with every task finished.
Thm_C13_FullCacheMakesNoCalls ==
    FullCache(cache0) =>
        /\ n_calls = [gen |-> 0, judge |-> 0]
        /\ cache = cache0
        /\ \A t \in Registered : fn[t] = NoOp
        /\ \A t \in Threads : ChatCalls(t) = {} /\ (Finished(t) => EndedWell(t))
        /\ runPc = "returned" \/ ENABLED NextRun
        /\ runPc = "returned" => \A t \in Registered : EndedWell(t)

\* a run over a full cache has returned: generation and judge tasks ran, each once,
\* as the no-op, on two workers
Wit_C13_FullCacheRunReturned ==
    /\ FullCache(cache0)
    /\ runPc = "returned"
    /\ max_workers = 2
    /\ \E t \in Registered : IsGen(t)
    /\ \E t \in Registered : IsJudge(t)
    /\ \A t \in Registered : calls[t] = <<"noop">> /\ EndedWell(t)

\* ---------------------------------------------------------------- C14
\* C14: an invocation of a generation task that gets an empty or blank content
\* leaves the cache and SharedResponses as they were and ends in the
\* EmptyResponseError branch of the retry loop (back-off and retry while the budget
\* lasts, the EmptyResponseError of its key as the task's error after that); an
\* invocation that gets a text has written the record of its key, holding that text,
\* when it returns, while the task's event is not set yet; and no step of the run
\* puts an empty or blank response into a cache file.
Thm_C14_EmptyResponseNeverStored ==
    [][/\ \A t \in Threads :
            fn[t].kind = "gen" =>
                /\ calls'[t] = Append(calls[t], "transient") =>
                       /\ cache' = cache
                       /\ shared' = shared
                       /\ n_calls'.gen = Loaded(t) + 1
                       /\ attempt[t] <= TASK_RETRIES =>
                              pc'[t] = "sleep" /\ task'[t] = task[t]
                       /\ attempt[t] > TASK_RETRIES =>
                              pc'[t] = "store" /\ task'[t].error = EmptyResponse(fn[t].path)
                /\ calls'[t] = Append(calls[t], "ok") =>
                       /\ fn[t].path \in DOMAIN cache'
                       /\ cache'[fn[t].path] = Record(Content("text", fn[t].path))
                       /\ ~IsEmptyContent(cache'[fn[t].path].response)
                       /\ pc'[t] = "store"
                       /\ ~events'[t]
       /\ \A p \in DOMAIN cache' :
            (p \notin DOMAIN cache \/ cache'[p].response # cache[p].response)
                => ~IsEmptyContent(cache'[p].response)
      ]_vars

\* a generation task got an empty content, was retried, got a text and has written
\* the record the cache did not hold, and its event is not set
Wit_C14_RecordWrittenAfterEmptyReply ==
    \E t \in Threads :
        /\ fn[t].kind = "gen"
        /\ calls[t] = <<"transient", "ok">>
        /\ sleeps[t] = <<TASK_RETRY_BACKOFF>>
        /\ fn[t].path \notin DOMAIN cache0
        /\ cache[fn[t].path] = Record(Content("text", fn[t].path))
        /\ pc[t] = "store"
        /\ ~events[t]

\* ---------------------------------------------------------------- C15
\* the generation tasks of the graph
GenTasks == {t \in Registered : IsGen(t)}

\* the calls of the model client made by the generation tasks
GenerationCalls ==
    {<<t, i>> \in GenTasks \X (1..(TASK_RETRIES + 1)) : i \in ChatCalls(t)}

\* the model has answered every generation call with a text
ModelAlwaysAnswers == \A c \in GenerationCalls : calls[c[1]][c[2]] = "ok"

\* the four single units and the five questions of the identity experiment
IdentityUnits ==
    {<<sc>> : sc \in {"direct", "tool_context", "negotiation_turn1", "negotiation_turn2"}
                        \cup Range(PSYCH_QUESTIONS)}

Suppliers(j) ==
    LET v == IdVariant(j)
        m == IdMode(j)
        e == IdExperiment(j)
        unit == j[6]
    IN IF e = "stability"
       THEN {GenId(v, m, e, Turn1(unit)), GenId(v, m, e, Turn2(unit))}
       ELSE IF unit = "psych_batch"
       THEN {GenId(v, m, e, <<PSYCH_QUESTIONS[k]>>) : k \in 1..Len(PSYCH_QUESTIONS)}
       ELSE IF unit = "negotiation"
       THEN {GenId(v, m, e, <<"negotiation_turn1">>), GenId(v, m, e, <<"negotiation_turn2">>)}
       ELSE {GenId(v, m, e, <<unit>>)}

JudgeTasks == {t \in Registered : IsJudge(t)}

\* C20: the fn of a judge task is not invoked, and so no judge call is made, before
\* every generation task supplying the responses it scores has finished without
\* error; and when one of them has finished with an error the judge task's fn is
\* never invoked and the judge task, once finished, holds the dependency error of
\* one of its depends_on entries.
Thm_C20_JudgeGatedOnGeneration ==
    \A j \in JudgeTasks \cap Threads :
        /\ Suppliers(j) \subseteq GenTasks
        /\ (pc[j] \in {"working", "adding", "sleep"} \/ calls[j] # <<>>)
               => \A g \in Suppliers(j) : EndedWell(g)
        /\ (\E g \in Suppliers(j) : Finished(g) /\ HasError(g))
               => /\ calls[j] = <<>>
                  /\ pc[j] \notin {"working", "adding", "sleep"}
                  /\ Finished(j) =>
                        \E d \in RegDeps(j) :
                            /\ HasError(d)
                            /\ task[j].error = DependencyError(d, task[d].error)

\* the run has returned: negotiation turn 1 failed in the model client, so turn 2 and
\* the negotiation judge ended with dependency errors and the judge made no call,
\* while the batch judge and the direct judge called the judge model
Wit_C20_FailedTurnBlocksItsJudgeOnly ==
    /\ runPc = "returned"
    /\ Len(Pairs) = 1
    /\ experiments = <<"identity">>
    /\ max_workers = MaxFaultyWorkers
    /\ LET v == Pairs[1][1]
           m == Pairs[1][2]
           t1 == GenId(v, m, "identity", <<"negotiation_turn1">>)
           t2 == GenId(v, m, "identity", <<"negotiation_turn2">>)
           nego == JudgeId(v, m, "identity", "negotiation")
       IN /\ calls[t1] = <<"fatal">>
          /\ task[t1].error = ChatError
          /\ calls[t2] = <<>>
          /\ task[nego].error = DependencyError(t2, DependencyError(t1, ChatError))
          /\ calls[nego] = <<>>
          /\ calls[JudgeId(v, m, "identity", "psych_batch")] = <<"ok">>
          /\ calls[JudgeId(v, m, "identity", "direct")] = <<"ok">>

\* ---------------------------------------------------------------- C21
\* the calls of the model client made by the judge tasks
JudgeCalls ==
    {<<t, i>> \in JudgeTasks \X (1..(TASK_RETRIES + 1)) : i \in ChatCalls(t)}

\* the calls of C from which client.chat returned, so that cost.add ran
Answered(C) == {c \in C : calls[c[1]][c[2]] # "fatal"}

\* the exception the last invocation of t's fn raised
Raised(t) ==
    IF Last(calls[t]) = "fatal" THEN ChatError ELSE EmptyResponse(fn[t].path)

\* C21: an exception raised by a task's fn never leaves _execute_task: the task
\* whose last invocation raised goes on to the back-off or to the store, and when
\* its _execute_task has returned its error slot holds that exception, it is in
\* _completed and its event is set; the run is never stuck before graph.run() has
\* returned, it returns the map of every task, and run_model_parallel returns its
\* two call counts, neither above the number of client calls that were answered.
Thm_C21_WorkExceptionsAreCaptured ==
    /\ \A t \in Threads :
          /\ (calls[t] # <<>> /\ Last(calls[t]) \in {"transient", "fatal"}) =>
                /\ pc[t] \in {"sleep", "working", "adding", "store", "signal", "done"}
                /\ pc[t] \in {"store", "signal", "done"} => task[t].error = Raised(t)
          /\ Finished(t) => t \in completed /\ events[t]
    /\ runPc = "returned" \/ ENABLED NextRun
    /\ runPc = "returned" =>
          /\ returned = Registered
          /\ \A t \in Registered : Finished(t)
          /\ n_calls.gen \in 0..Cardinality(Answered(GenerationCalls))
          /\ n_calls.judge \in 0..Cardinality(Answered(JudgeCalls))

\* the run has returned its counts although the call of the direct judge raised:
\* the judge task holds the exception, the nine generation calls and the three
\* other judge calls are counted
Wit_C21_ReturnedAfterJudgeRaised ==
    /\ runPc = "returned"
    /\ experiments = <<"identity">>
    /\ Len(Pairs) = 1
    /\ LET j == JudgeId(Pairs[1][1], Pairs[1][2], "identity", "direct")
       IN /\ calls[j] = <<"fatal">>
          /\ task[j].error = ChatError
          /\ j \in returned
    /\ n_calls = [gen |-> 9, judge |-> 3]

\* ------------------------------------------------- runs over a partial cache
\* the runs on one worker thread over a cache in which the files of a few units
\* differ from the rest: a unit not yet generated among answered ones, or an
\* answered one in an otherwise empty cache
InitSerial ==
    /\ InitBench(RunMaxExperiments, RunMaxPairs, SerialMaxHoles, {1})
    /\ \A p \in DOMAIN cache : cache[p].response # None

\* on one worker no two closures are inside fn at once: no AddCost
NextSerial ==
    \/ Build
    \/ Submit
    \/ SubmitDone
    \/ Join
    \/ Return
    \/ \E t \in Threads : Start(t)
    \/ \E t \in Threads : WaitDep(t)
    \/ \E t \in Threads : CheckDep(t)
    \/ \E t \in Threads : BeginWork(t)
    \/ \E t \in Threads : WorkNoOp(t)
    \/ \E t \in Threads : WorkGenerate(t)
    \/ \E t \in Threads : WorkJudge(t)
    \/ \E t \in Threads : Retry(t)
    \/ \E t \in Threads : Store(t)
    \/ \E t \in Threads : Signal(t)

SpecSerial == InitSerial /\ [][NextSerial]_vars

\* run_identity_experiment of runner.py, Mode B: prior_qa when its loop over
\* PSYCH_QUESTIONS reaches the question of the file path: one pair for each earlier
\* question in declared order, made of the question and the response of its file
\* (read from the cache, or saved by the iteration that generated it)
QuestionIndex(path) == CHOOSE k \in 1..Len(PSYCH_QUESTIONS) : PSYCH_QUESTIONS[k] = Last(path)

SequentialPriorQa(path) ==
    [j \in 1..(QuestionIndex(path) - 1) |->
        <<PSYCH_QUESTIONS[j],
          load_cached_response([path EXCEPT ![Len(path)] = PSYCH_QUESTIONS[j]]).response>>]

\* C25: when the closure of psychological question k is building its prompt, the
\* prior list it reads from SharedResponses is the list of the pairs of questions
\* 1..k-1 in declared order, the list the sequential runner passes for question k,
\* whatever the cache held when the graph was built
CE_C25_PriorListIsEarlierQuestions ==
    \A t \in Threads :
        (pc[t] = "working" /\ fn[t].kind = "gen" /\ fn[t].use = "psych")
            => PsychPriorQa(shared, fn[t].skey) = SequentialPriorQa(fn[t].path)

\* the file of turn 1 of the unit whose turn 2 is saved in the file path:
\* negotiation_turn1 for negotiation_turn2, f"{topic.id}_turn1" for f"{topic.id}_turn2"
Turn1Path(path) ==
    IF Last(path) = "negotiation_turn2"
    THEN [path EXCEPT ![Len(path)] = "negotiation_turn1"]
    ELSE [path EXCEPT ![Len(path)] = "_turn1"]

\* the closures of negotiation turn 2 and of the stability turns 2 that are inside fn
Turn2Working == {t \in Threads : pc[t] = "working" /\ fn[t].kind = "gen" /\ fn[t].use = "get"}

\* C26: whenever the closure of negotiation turn 2 or of a stability turn 2 runs,
\* the SharedResponses entry of its turn-1 key holds the non-empty response that the
\* cache file of turn 1 holds, whether turn 1 was cached when the graph was built or
\* generated by this run
Thm_C26_TurnTwoFindsTurnOneResponse ==
    \A t \in Turn2Working :
        /\ HasResponse(Turn1Path(fn[t].path))
        /\ ~IsEmptyContent(SharedGet(fn[t].skey))
        /\ SharedGet(fn[t].skey) = cache[Turn1Path(fn[t].path)].response

\* a stability run over a cache that held turn 1 of the first topic only: turn 2 of
\* the first topic has been answered from the preloaded entry, and turn 2 of the
\* second topic is inside fn after its turn 1 was generated by this run
Wit_C26_PreloadedAndGeneratedTurnOne ==
    /\ experiments = <<"stability">>
    /\ Len(Pairs) = 1
    /\ LET v == Pairs[1][1]
           m == Pairs[1][2]
           a == PREFERENCE_TOPICS[1]
           b == PREFERENCE_TOPICS[2]
       IN /\ DOMAIN cache0 = {CachePath("stability", v, m, Turn1(a))}
          /\ GenId(v, m, "stability", Turn2(b)) \in Turn2Working
          /\ fn[GenId(v, m, "stability", Turn1(a))].kind = "noop"
          /\ calls[GenId(v, m, "stability", Turn2(a))] = <<"ok">>
          /\ calls[GenId(v, m, "stability", Turn1(b))] = <<"ok">>
          /\ SharedGet(<<ModelId, v, m, "stability", a>>) = OldResponse
          /\ SharedGet(<<ModelId, v, m, "stability", b>>) # OldResponse

\* an attempt of task t ends in this step: one more entry in its list of calls
AttemptEnded(t) == t \in DOMAIN calls /\ t \in DOMAIN calls' /\ calls'[t] # calls[t]

\* an attempt of the generation task t ends in this step with its response saved
GenWrote(t) == AttemptEnded(t) /\ fn[t].kind = "gen" /\ Last(calls'[t]) = "ok"

\* C27: over the attempts of one generation task, the file of its key is written at
\* most once and its SharedResponses entry is written (its psych pair appended) at
\* most once, both by the attempt that succeeds; an attempt that fails leaves the
\* cache and SharedResponses as they were. Every change of a response in the cache,
\* and every change of SharedResponses after the build, is such a write.
Thm_C27_OnlySuccessfulAttemptWrites ==
    [][/\ \A t \in DOMAIN calls :
            (AttemptEnded(t) /\ fn[t].kind = "gen") =>
                IF Last(calls'[t]) = "ok"
                THEN /\ "ok" \notin Range(calls[t])
                     /\ task'[t].error = NoError
                     /\ pc'[t] = "store"
                     /\ HasResponse(fn[t].path)'
                     /\ cache' = SaveResponse(cache, fn[t].path, cache'[fn[t].path].response)
                     /\ \A k \in DOMAIN shared' \ {fn[t].skey} :
                            k \in DOMAIN shared /\ shared'[k] = shared[k]
                     /\ fn[t].use = "set" =>
                            shared'[fn[t].skey] = cache'[fn[t].path].response
                     /\ fn[t].use = "psych" =>
                            PsychPriorQa(shared', fn[t].skey) =
                                Append(PsychPriorQa(shared, fn[t].skey),
                                       <<Last(fn[t].path), cache'[fn[t].path].response>>)
                     /\ fn[t].use = "get" => shared' = shared
                ELSE cache' = cache /\ shared' = shared
       /\ (runPc # "build" /\ shared' # shared) =>
            \E t \in DOMAIN calls : GenWrote(t) /\ fn[t].use \in {"set", "psych"}
       /\ \A p \in DOMAIN cache' :
            (p \notin DOMAIN cache \/ cache'[p].response # cache[p].response) =>
                \E t \in DOMAIN calls : GenWrote(t) /\ fn[t].path = p
      ]_vars

\* the second psychological question failed its first attempt on an empty reply and
\* succeeded on its retry: its file holds the reply, and the psych_qa entry holds the
\* pair of the first question and one pair of the second
Wit_C27_RetriedQuestionWroteOnce ==
    /\ experiments = <<"identity">>
    /\ Len(Pairs) = 1
    /\ LET v == Pairs[1][1]
           m == Pairs[1][2]
           t == GenId(v, m, "identity", <<"pq02">>)
       IN /\ t \in Threads
          /\ calls[t] = <<"transient", "ok">>
          /\ fn[t].kind = "gen"
          /\ cache[fn[t].path].response = Content("text", fn[t].path)
          /\ Len(PsychPriorQa(shared, fn[t].skey)) = 2
          /\ PsychPriorQa(shared, fn[t].skey)[2] = <<"pq02", Content("text", fn[t].path)>>

\* the tasks whose closure writes the cache file path: save_response of a
\* generation closure, save_judge_scores of a judge closure
Writers(path) == {t \in Registered : fn[t].kind \in {"gen", "judge"} /\ fn[t].path = path}

\* task t is in its retry loop: inside fn, or between two attempts
InWork(t) == t \in Threads /\ pc[t] \in {"working", "adding", "sleep"}

\* two different tasks that write the same cache file
SameFileWriters ==
    {<<t, u>> \in Registered \X Registered :
        t # u /\ fn[t].kind # "noop" /\ u \in Writers(fn[t].path)}

\* graph.run() is entered: the graph is built and is not changed from here on
GraphBuilt == runPc = "submit" /\ submitted = 0

\* C28: in the built graph the tasks that write one cache file (the generation task
\* and the judge task of the key; the psych batch judge on pq01, the negotiation and
\* stability judges on the file of turn 2) are ordered by dependency paths, and no
\* two of them are ever in their work at the same time
Thm_C28_SameFileWritersSerialized ==
    /\ GraphBuilt =>
          \A w \in SameFileWriters : w[1] \in Upstream(w[2]) \/ w[2] \in Upstream(w[1])
    /\ \A t, u \in {w \in Threads : InWork(w) /\ fn[w].kind # "noop"} :
          t # u => fn[t].path # fn[u].path

\* the psych batch judge is inside its judge call, about to write its scores into the
\* file of pq01 that the generation task of pq01 wrote earlier in this run, while
\* other judges run beside it
Wit_C28_PsychJudgeAfterFirstQuestion ==
    /\ experiments = <<"identity">>
    /\ Len(Pairs) = 1
    /\ LET v == Pairs[1][1]
           m == Pairs[1][2]
           g == GenId(v, m, "identity", <<"pq01">>)
           j == JudgeId(v, m, "identity", "psych_batch")
       IN /\ j \in Threads
          /\ Writers(CachePath("identity", v, m, <<"pq01">>)) = {g, j}
          /\ calls[g] = <<"ok">>
          /\ Finished(g)
          /\ pc[j] = "working"
          /\ JudgeReady(fn[j])
          /\ \E k \in Threads \ {j} : fn[k].kind = "judge" /\ InWork(k)

\* the tasks whose closure reads the SharedResponses entry key (shared.get in a
\* turn 2, _get_psych_prior_qa in a psych question) and those whose closure writes
\* it (shared.set in a turn 1, _store_psych_qa in a psych question)
SharedReaders(key) ==
    {t \in Registered : fn[t].kind = "gen" /\ fn[t].use \in {"get", "psych"} /\ fn[t].skey = key}

SharedWriters(key) ==
    {t \in Registered : fn[t].kind = "gen" /\ fn[t].use \in {"set", "psych"} /\ fn[t].skey = key}

\* the keys the closures of the graph use
UsedKeys == {fn[t].skey : t \in {u \in Registered : fn[u].kind = "gen" /\ fn[u].use # "none"}}

\* C29 as stated: in the built graph every task that reads a SharedResponses key
\* depends, directly or transitively, on every other task that writes that key
CE_C29_ReaderDependsOnEveryWriter ==
    GraphBuilt =>
        \A key \in UsedKeys : \A r \in SharedReaders(key) :
            \A w \in SharedWriters(key) \ {r} : w \in Upstream(r)

\* C29, amended: in the built graph a task that only reads a key depends on every
\* task that writes it, and any two tasks that use one key, one of them writing it,
\* are ordered by dependency paths (the psych questions, each reading and then
\* appending to psych_qa, form a chain); so no two tasks that use one key are ever
\* in their work at the same time, and no append to psych_qa comes between the read
\* and the write of another
Thm_C29_SharedKeyUsersSerialized ==
    /\ GraphBuilt =>
          \A key \in UsedKeys : \A r \in SharedReaders(key) :
              \A w \in SharedWriters(key) \ {r} :
                  \/ w \in Upstream(r)
                  \/ r \in SharedWriters(key) /\ r \in Upstream(w)
    /\ \A t, u \in {w \in Threads : InWork(w) /\ fn[w].kind = "gen" /\ fn[w].use # "none"} :
          t # u => fn[t].skey # fn[u].skey

\* the second psychological question is inside fn with the pair of the first question,
\* generated in this run, as its prior list, while negotiation turn 2, which reads
\* another key, is inside fn beside it
Wit_C29_PsychReadBesideOtherKey ==
    /\ experiments = <<"identity">>
    /\ Len(Pairs) = 1
    /\ LET v == Pairs[1][1]
           m == Pairs[1][2]
           q1 == GenId(v, m, "identity", <<"pq01">>)
           q2 == GenId(v, m, "identity", <<"pq02">>)
           n2 == GenId(v, m, "identity", <<"negotiation_turn2">>)
       IN /\ {q1, q2, n2} \subseteq Threads
          /\ calls[q1] = <<"ok">>
          /\ pc[q2] = "working"
          /\ fn[q2].use = "psych"
          /\ Len(PsychPriorQa(shared, fn[q2].skey)) = 1
          /\ pc[n2] = "working"
          /\ fn[n2].use = "get"

\* ------------------------------------------------------------ cache files
\* save_response and save_judge_scores on whole records. In this part cache maps the
\* path of a file to the record json.loads reads from it, or to Unreadable for a
\* file json.loads rejects; the data written are dicts with text keys, texts,
\* numbers and None, which json.dumps and json.loads give back as they were.
Unreadable == <<"not json">>

CacheFiles ==
    {CachePath("identity", SYSTEM_PROMPT_VARIANTS[1], DELIVERY_MODES[1], <<s>>) :
        s \in {"direct", "pq01"}}

\* values of the optional arguments and of the clock
NewText == <<"response text">>
Stop == <<"stop">>
Thinking == <<"thinking...">>
Messages == <<"request messages">>
ToolCalls == <<"send_message_to_human">>
GenCost == <<"cost of the generation call">>
JudgeCost == <<"cost of the judge call">>
Scores == <<"score", 5>>
RawJudgeText == <<"Judge raw response text">>
Clock == {1, 2}

\* the arguments of one save_response call, besides the path and the clock
SaveArgs ==
    {[response_text |-> NewText, messages |-> None, reasoning_content |-> Thinking,
      gen_cost |-> None, response_tool_calls |-> None, finish_reason |-> Stop,
      content_thinking |-> None],
     [response_text |-> NewText, messages |-> Messages, reasoning_content |-> None,
      gen_cost |-> GenCost, response_tool_calls |-> None, finish_reason |-> None,
      content_thinking |-> None],
     [response_text |-> OldResponse, messages |-> Messages, reasoning_content |-> None,
      gen_cost |-> GenCost, response_tool_calls |-> ToolCalls, finish_reason |-> Stop,
      content_thinking |-> Thinking]}

\* data = {...}; the optional keys are added when their argument is given
ResponseData(path, a, now) ==
    LET data == [metadata |-> [model |-> path[1], experiment |-> path[2],
                               system_variant |-> path[3], delivery_mode |-> path[4],
                               scenario_id |-> SubSeq(path, 5, Len(path)),
                               timestamp |-> now],
                 response |-> a.response_text,
                 finish_reason |-> a.finish_reason,
                 gen_cost |-> a.gen_cost,
                 judge_scores |-> None,
                 judge_cost |-> None]
        d1 == IF a.messages # None THEN ("request_messages" :> a.messages) @@ data ELSE data
        d2 == IF a.reasoning_content # None
              THEN ("reasoning_content" :> a.reasoning_content) @@ d1 ELSE d1
        d3 == IF a.content_thinking # None
              THEN ("content_thinking" :> a.content_thinking) @@ d2 ELSE d2
    IN IF a.response_tool_calls # None
       THEN ("response_tool_calls" :> a.response_tool_calls) @@ d3 ELSE d3

\* save_response: path.write_text(json.dumps(data)), whatever the file held
save_response(c, path, a, now) ==
    [k \in DOMAIN c \cup {path} |-> IF k = path THEN ResponseData(path, a, now) ELSE c[k]]

\* variant: a record is written also when there is no file
save_judge_scores_creating(c, path, scores, judge_raw_response, judge_cost) ==
    [k \in DOMAIN c \cup {path} |->
        IF k # path THEN c[k]
        ELSE IF path \in DOMAIN c /\ c[path] # Unreadable
        THEN ("judge_scores" :> scores) @@ c[path]
        ELSE [judge_scores |-> scores]]

\* save_judge_scores: returns if the file does not exist or cannot be read; else
\* sets judge_scores, and judge_raw_response and judge_cost when given, in the data
\* read and writes them back
save_judge_scores(c, path, scores, judge_raw_response, judge_cost) ==
    IF path \notin DOMAIN c THEN c
    ELSE IF c[path] = Unreadable THEN c
    ELSE LET d1 == ("judge_scores" :> scores) @@ c[path]
             d2 == IF judge_raw_response # None
                   THEN ("judge_raw_response" :> judge_raw_response) @@ d1 ELSE d1
             d3 == IF judge_cost # None THEN ("judge_cost" :> judge_cost) @@ d2 ELSE d2
         IN [c EXCEPT ![path] = d3]

\* no graph and no run: a module of the program used on its own
NoGraph ==
    /\ order = <<>>
    /\ depends_on = <<>>
    /\ max_workers = 1
    /\ task = <<>>
    /\ completed = {}
    /\ events = <<>>
    /\ setCount = <<>>
    /\ pc = <<>>
    /\ depIdx = <<>>
    /\ attempt = <<>>
    /\ calls = <<>>
    /\ sleeps = <<>>
    /\ submitted = 0
    /\ joined = 0
    /\ runPc = "build"
    /\ returned = {}
    /\ experiments = <<>>
    /\ system_variants = <<>>
    /\ delivery_modes = <<>>
    /\ fn = <<>>
    /\ n_calls = [gen |-> 0, judge |-> 0]
    /\ seen = <<>>
    /\ tool_call_counter = 0
    /\ drawn = <<>>
    /\ plan = <<>>
    /\ buildIdx = 0
    /\ prev_task_id = <<>>

\* a cache directory in which some files are unreadable
InitCache ==
    /\ \E S \in SUBSET CacheFiles : cache = [p \in S |-> Unreadable]
    /\ cache0 = cache
    /\ shared = <<>>
    /\ ops = <<>>
    /\ NoGraph

CacheFrame ==
    UNCHANGED <<order, depends_on, max_workers, task, completed, events, setCount, pc,
                depIdx, attempt, calls, sleeps, submitted, joined, runPc, returned,
                experiments, system_variants, delivery_modes, cache0, shared, fn,
                n_calls, seen, ops, tool_call_counter, drawn, plan, buildIdx,
                prev_task_id>>

\* a call of save_response
CallSaveResponse ==
    /\ \E path \in CacheFiles, a \in SaveArgs, now \in Clock :
           cache' = save_response(cache, path, a, now)
    /\ CacheFrame

\* a call of save_judge_scores
CallSaveJudgeScores ==
    /\ \E path \in CacheFiles, scores \in {Scores, None},
          raw \in {RawJudgeText, None}, cost \in {JudgeCost, None} :
           cache' = save_judge_scores(cache, path, scores, raw, cost)
    /\ CacheFrame

NextCache == CallSaveResponse \/ CallSaveJudgeScores

SpecCache == InitCache /\ [][NextCache]_vars

\* the keys save_judge_scores may set
JudgeKeys == {"judge_scores", "judge_raw_response", "judge_cost"}

\* the record of d at path has key k exactly when that of c has, with the same value
SameKey(c, d, path, k) ==
    /\ k \in DOMAIN d[path] <=> k \in DOMAIN c[path]
    /\ k \in DOMAIN c[path] => d[path][k] = c[path][k]

\* what the run reads of a cache: the response and the judge_scores of each record
View(c) ==
    [p \in {q \in DOMAIN c : c[q] # Unreadable} |->
        [response |-> c[p].response, judge_scores |-> c[p].judge_scores]]

\* C23: whatever the cache holds and whatever the arguments: save_judge_scores
\* creates and removes no file and leaves every other file alone; on a file with a
\* record it sets judge_scores, sets judge_raw_response and judge_cost when they are
\* given and leaves them alone when not, and leaves response, metadata and every
\* other key as they were; on a path without a file (or with an unreadable one) it
\* changes nothing. save_response leaves the other files alone and replaces the
\* whole record of its path: the record is the one it writes into an empty
\* directory, with the response given, judge_scores None and nothing of the old
\* record. Seen through response and judge_scores only, the two are the functions
\* the run uses.
Thm_C23_CacheWritesFrame ==
    \A path \in CacheFiles :
        /\ \A scores \in {Scores, None}, raw \in {RawJudgeText, None}, cost \in {JudgeCost, None} :
              LET d == save_judge_scores(cache, path, scores, raw, cost)
              IN /\ DOMAIN d = DOMAIN cache
                 /\ \A q \in DOMAIN cache \ {path} : d[q] = cache[q]
                 /\ (path \in DOMAIN cache /\ cache[path] = Unreadable) => d = cache
                 /\ (path \in DOMAIN cache /\ cache[path] # Unreadable) =>
                       /\ d[path].judge_scores = scores
                       /\ \A k \in (DOMAIN cache[path] \cup DOMAIN d[path]) \ JudgeKeys :
                             SameKey(cache, d, path, k)
                       /\ IF raw = None THEN SameKey(cache, d, path, "judge_raw_response")
                          ELSE d[path].judge_raw_response = raw
                       /\ IF cost = None THEN SameKey(cache, d, path, "judge_cost")
                          ELSE d[path].judge_cost = cost
                 /\ View(d) = SaveJudgeScores(View(cache), path, scores)
        /\ \A a \in SaveArgs, now \in Clock :
              LET d == save_response(cache, path, a, now)
              IN /\ DOMAIN d = DOMAIN cache \cup {path}
                 /\ \A q \in DOMAIN cache \ {path} : d[q] = cache[q]
                 /\ d[path] = save_response(<<>>, path, a, now)[path]
                 /\ d[path].response = a.response_text
                 /\ d[path].judge_scores = None
                 /\ d[path].judge_cost = None
                 /\ "judge_raw_response" \notin DOMAIN d[path]
                 /\ View(d) = SaveResponse(View(cache), path, a.response_text)

\* scores, raw text and cost of a judge call were added to the record of a response
\* saved with its reasoning, next to a file that has no scores
Wit_C23_ScoresAddedToSavedResponse ==
    \E p \in DOMAIN cache, q \in DOMAIN cache :
        /\ p # q
        /\ cache[p] # Unreadable
        /\ cache[p].response = NewText
        /\ "reasoning_content" \in DOMAIN cache[p]
        /\ cache[p].judge_scores = Scores
        /\ "judge_raw_response" \in DOMAIN cache[p]
        /\ cache[p].judge_cost = JudgeCost
        /\ cache[q] # Unreadable
        /\ cache[q].judge_scores = None

\* ------------------------------------------------------- SharedResponses
\* one SharedResponses used by plain threads, as in TestSharedResponses: every
\* thread calls set and get, one call at a time
ClientThreads == {"writer_1", "writer_2", "reader"}
SharedKeys == {<<"key_1">>, <<"key_2">>}
SharedValues == {<<"value_1">>, <<"value_2">>}

\* the calls that have returned
Done == {i \in DOMAIN ops : ops[i].at = "done"}

\* the invocations and returns so far: the time of the next one
Now == Len(ops) + Cardinality(Done) + 1

\* the call thread t is in, if any
Pending(t) == {i \in DOMAIN ops : ops[i].thread = t /\ ops[i].at # "done"}

\* self._lock is held
LockHeld == \E i \in DOMAIN ops : ops[i].at = "in"

SharedFrame ==
    UNCHANGED <<order, depends_on, max_workers, task, completed, events, setCount, pc,
                depIdx, attempt, calls, sleeps, submitted, joined, runPc, returned,
                experiments, system_variants, delivery_modes, cache, cache0, fn,
                n_calls, seen, tool_call_counter, drawn, plan, buildIdx, prev_task_id>>

\* thread t calls shared.set(key, value) or shared.get(key), and comes to `with self._lock`
Invoke(t) ==
    /\ Pending(t) = {}
    /\ Len(ops) < MaxOps
    /\ \E kind \in {"set", "get"}, key \in SharedKeys, value \in SharedValues :
           ops' = Append(ops, [thread |-> t, kind |-> kind, key |-> key,
                               value |-> IF kind = "set" THEN value ELSE None,
                               at |-> "wait", inv |-> Now, ret |-> 0, result |-> None])
    /\ UNCHANGED shared
    /\ SharedFrame

\* with self._lock: the lock is free and thread t takes it
Acquire(t) ==
    /\ ~LockHeld
    /\ \E i \in Pending(t) :
           /\ ops[i].at = "wait"
           /\ ops' = [ops EXCEPT ![i].at = "in"]
    /\ UNCHANGED shared
    /\ SharedFrame

\* set: self._data[key] = value under the lock, which is released on the way out
SetLocked(t) ==
    /\ \E i \in Pending(t) :
           /\ ops[i].at = "in"
           /\ ops[i].kind = "set"
           /\ shared' = SharedSet(shared, ops[i].key, ops[i].value)
           /\ ops' = [ops EXCEPT ![i].at = "done", ![i].ret = Now]
    /\ SharedFrame

\* get: return self._data.get(key, "") under the lock, which is released on the way out
GetLocked(t) ==
    /\ \E i \in Pending(t) :
           /\ ops[i].at = "in"
           /\ ops[i].kind = "get"
           /\ ops' = [ops EXCEPT ![i].at = "done", ![i].ret = Now,
                                 ![i].result = SharedGet(ops[i].key)]
    /\ UNCHANGED shared
    /\ SharedFrame

\* a fresh SharedResponses
InitShared ==
    /\ shared = <<>>
    /\ ops = <<>>
    /\ cache = <<>>
    /\ cache0 = <<>>
    /\ NoGraph

NextShared ==
    \/ \E t \in ClientThreads : Invoke(t)
    \/ \E t \in ClientThreads : Acquire(t)
    \/ \E t \in ClientThreads : SetLocked(t)
    \/ \E t \in ClientThreads : GetLocked(t)

SpecShared == InitShared /\ [][NextShared]_vars

\* call i returned before call j was invoked
Before(i, j) == ops[i].ret # 0 /\ ops[i].ret < ops[j].inv

\* the map after the first n calls of the list l, made one after the other
RECURSIVE Replay(_, _)
Replay(l, n) ==
    IF n = 0 THEN <<>>
    ELSE LET d == Replay(l, n - 1)
             o == ops[l[n]]
         IN IF o.kind = "set"
            THEN [k \in DOMAIN d \cup {o.key} |-> IF k = o.key THEN o.value ELSE d[k]]
            ELSE d

\* l is an order of the returned calls that keeps the order of calls that did not
\* overlap, in which every get returns the value of the latest set of its key, or
\* the empty string, and which ends with the map as it is
Legal(l) ==
    /\ NoRepeat(l)
    /\ Len(l) = Cardinality(Done)
    /\ \A a, b \in 1..Len(l) : a < b => ~Before(l[b], l[a])
    /\ \A n \in 1..Len(l) :
          ops[l[n]].kind = "get" =>
              LET d == Replay(l, n - 1)
              IN ops[l[n]].result = IF ops[l[n]].key \in DOMAIN d THEN d[ops[l[n]].key] ELSE None
    /\ Replay(l, Len(l)) = shared

Linearizable == \E l \in ListsOver(Done, MaxOps) : Legal(l)

\* C22: SharedResponses is a linearizable map of texts: the calls that have
\* returned can be put in one order that respects real time and in which every get
\* returns the value of the latest set of its key, or "" when there was none; a set
\* that is the only one on its key is retained whatever other threads set at the
\* same time on other keys; and a get never returns a value that no set on its
\* key, invoked before the get returned, has written.
Thm_C22_SharedResponsesLinearizable ==
    /\ Linearizable
    /\ \A i \in Done :
          (ops[i].kind = "set"
           /\ \A j \in DOMAIN ops \ {i} : ~(ops[j].kind = "set" /\ ops[j].key = ops[i].key))
          => SharedGet(ops[i].key) = ops[i].value
    /\ \A g \in Done :
          (ops[g].kind = "get" /\ ops[g].result # None) =>
              \E w \in DOMAIN ops :
                  /\ ops[w].kind = "set"
                  /\ ops[w].key = ops[g].key
                  /\ ops[w].value = ops[g].result
                  /\ ops[w].inv < ops[g].ret

\* two threads have set distinct keys at overlapping times and a third thread's
\* get, overlapping with one of the sets, has returned the value that set wrote
Wit_C22_OverlappingSetsAndGet ==
    \E i, j, g \in Done :
        /\ ops[i].kind = "set" /\ ops[j].kind = "set" /\ ops[g].kind = "get"
        /\ ops[i].thread # ops[j].thread
        /\ ops[i].key # ops[j].key
        /\ ~Before(i, j) /\ ~Before(j, i)
        /\ ops[g].key = ops[j].key
        /\ ~Before(j, g) /\ ~Before(g, j)
        /\ ops[g].result = ops[j].value
        /\ SharedGet(ops[i].key) = ops[i].value

\* ------------------------------------------------- tool call ids
\* the work closures of one tool_role pair that run at the same time build their
\* messages with _build_tool_role_single_turn, _two_turn or _three_turn: each
\* resets the module-level counter and draws its ids from it, no lock held
BuilderThreads == {"closure_1", "closure_2"}

\* f"hmsg{_tool_call_counter:05d}"
ToolCallId(n) == <<"hmsg", n>>

ToolFrame ==
    UNCHANGED <<order, depends_on, max_workers, task, completed, events, setCount, pc,
                depIdx, attempt, calls, sleeps, submitted, joined, runPc, returned,
                experiments, system_variants, delivery_modes, cache, cache0, shared, fn,
                n_calls, seen, ops, plan, buildIdx, prev_task_id>>

\* the closure of thread t calls a builder that draws `turns` ids
EnterBuilder(t) ==
    /\ drawn[t].at = "idle"
    /\ \E turns \in 1..MaxToolTurns :
           drawn' = [drawn EXCEPT ![t] = [at |-> "reset", turns |-> turns, ids |-> <<>>]]
    /\ UNCHANGED tool_call_counter
    /\ ToolFrame

\* _reset_tool_call_counter()
ResetToolCallCounter(t) ==
    /\ drawn[t].at = "reset"
    /\ tool_call_counter' = 0
    /\ drawn' = [drawn EXCEPT ![t].at = "draw"]
    /\ ToolFrame

\* tc_id = _get_next_tool_call_id(): the counter goes up and its value is formatted
GetNextToolCallId(t) ==
    /\ drawn[t].at = "draw"
    /\ tool_call_counter' = tool_call_counter + 1
    /\ drawn' = [drawn EXCEPT ![t].ids = Append(@, ToolCallId(tool_call_counter + 1)),
                              ![t].at = IF Len(drawn[t].ids) + 1 = drawn[t].turns
                                        THEN "built" ELSE "draw"]
    /\ ToolFrame

InitToolIds ==
    /\ tool_call_counter = 0
    /\ drawn = [t \in BuilderThreads |-> [at |-> "idle", turns |-> 0, ids |-> <<>>]]
    /\ ops = <<>>
    /\ shared = <<>>
    /\ cache = <<>>
    /\ cache0 = <<>>
    /\ order = <<>>
    /\ depends_on = <<>>
    /\ max_workers = Cardinality(BuilderThreads)
    /\ task = <<>>
    /\ completed = {}
    /\ events = <<>>
    /\ setCount = <<>>
    /\ pc = <<>>
    /\ depIdx = <<>>
    /\ attempt = <<>>
    /\ calls = <<>>
    /\ sleeps = <<>>
    /\ submitted = 0
    /\ joined = 0
    /\ runPc = "run"
    /\ returned = {}
    /\ experiments = <<>>
    /\ system_variants = <<>>
    /\ delivery_modes = <<>>
    /\ fn = <<>>
    /\ n_calls = [gen |-> 0, judge |-> 0]
    /\ seen = <<>>
    /\ plan = <<>>
    /\ buildIdx = 0
    /\ prev_task_id = <<>>

NextToolIds ==
    \/ \E t \in BuilderThreads : EnterBuilder(t)
    \/ \E t \in BuilderThreads : ResetToolCallCounter(t)
    \/ \E t \in BuilderThreads : GetNextToolCallId(t)

SpecToolIds == InitToolIds /\ [][NextToolIds]_vars

\* C30: besides the completed-task map, the events and SharedResponses, which are
\* behind locks, no mutable object is read-modified-written by work closures that
\* run at the same time: the module-level counter of tool call ids, which the
\* builders reset and then increment, gives every builder hmsg00001, hmsg00002, ...
\* in order, as if nothing else touched it between the reset and the last draw.
CE_C30_NoUnlockedReadModifyWrite ==
    \A t \in DOMAIN drawn :
        \A i \in 1..Len(drawn[t].ids) : drawn[t].ids[i] = ToolCallId(i)


\* ---------------------------------------------------------------- C31
\* the waits of the retries 1..TASK_RETRIES with the defaults of the class
DefaultWaits == <<5, 10, 15>>

\* the attempts of t that were followed by a sleep: EmptyResponseError within the budget
SleptAfter(t) == {i \in 1..Len(calls[t]) : calls[t][i] = "transient" /\ i <= TASK_RETRIES}

Thm_C32_OutcomeSetOnce ==
    /\ [](\A t \in Registered : task[t].result = NoResult \/ task[t].error = NoError)
    /\ [][\A t \in completed :
              /\ t \in completed'
              /\ task'[t] = task[t]
              /\ calls'[t] = calls[t]
              /\ pc'[t] \in {"signal", "done"}]_vars

\* one task is recorded with a result and no error, another with an error and no
\* result, while a third is still inside its fn
Wit_C32_RecordedBesideRunning ==
    \E t, u, w \in Registered :
        /\ {t, u} \subseteq completed
        /\ task[t].result # NoResult /\ task[t].error = NoError
        /\ task[u].result = NoResult /\ task[u].error # NoError
        /\ pc[w] = "working"

\* ---------------------------------------------------------------- C33
\* the tasks that have started executing and are not terminal: waiting for a
\* dependency, inside fn, sleeping before a retry, or about to record their outcome
StartedNotTerminal == {t \in Registered : pc[t] \in {"deps", "working", "sleep", "store"}}

\* C33: at every moment at most max_workers tasks have started and are not yet
\* terminal, a worker thread each; every other task that is not terminal is not
\* started: it has not waited, not invoked fn, is not recorded, its event is not
\* set, and once the submit loop is over it is in the queue of the pool
Thm_C33_AtMostMaxWorkersStarted ==
    /\ Cardinality(StartedNotTerminal) <= max_workers
    /\ Cardinality(Active) <= max_workers
    /\ \A t \in Registered \ Active :
          \/ Finished(t) /\ t \in completed /\ events[t]
          \/ /\ pc[t] \in {"unsubmitted", "queued"}
             /\ calls[t] = <<>>
             /\ sleeps[t] = <<>>
             /\ t \notin completed
             /\ ~events[t]
             /\ runPc # "submit" => pc[t] = "queued"

\* on two workers one task waits for its dependency, which sleeps before a retry,
\* and the third task is still in the queue
Wit_C33_PoolFullThirdQueued ==
    /\ max_workers = 2
    /\ runPc = "join"
    /\ \E t, u, w \in Registered :
          /\ pc[t] = "deps"
          /\ u \in RegDeps(t)
          /\ pc[u] = "sleep"
          /\ pc[w] = "queued"

\* ---------------------------------------------------------------- C34
\* the text of a task id: the f-string joins the pieces with ":", the turn of a
\* stability scenario is part of the scenario id (f"{topic.id}_turn1")
RECURSIVE IdText(_)
IdText(t) ==
    IF Len(t) = 1 THEN t[1]
    ELSE IdText(SubSeq(t, 1, Len(t) - 1))
         \o (IF Last(t) \in {"_turn1", "_turn2"} THEN Last(t) ELSE ":" \o Last(t))

\* the number of graph.add calls of one _add_* call
AddCalls(op) ==
    IF op = "psych_chain" THEN 0
    ELSE IF op = "stability" THEN 2
    ELSE IF op = "identity_judge" THEN 4
    ELSE 1

\* the number of graph.add calls of the first n steps of the build
RECURSIVE AddCallsUpTo(_)
AddCallsUpTo(n) == IF n = 0 THEN 0 ELSE AddCallsUpTo(n - 1) + AddCalls(plan[n].op)

\* the logical units of one experiment for one (variant, mode): generation and judge
UnitsOf(experiment) ==
    IF experiment = "identity" THEN 4 + Len(PSYCH_QUESTIONS) + 4
    ELSE IF experiment = "resistance" THEN 2 * Len(RESISTANCE_SCENARIOS)
    ELSE 3 * Len(PREFERENCE_TOPICS)

RECURSIVE UnitsOfAll(_)
UnitsOfAll(es) == IF es = <<>> THEN 0 ELSE UnitsOf(Head(es)) + UnitsOfAll(Tail(es))

\* C34: within one graph distinct logical units get distinct task ids: every
\* graph.add so far has registered a new id, none replaced a registered task, the
\* texts of the registered ids differ pairwise, and the built graph holds as many
\* tasks as there are units
Thm_C34_DistinctUnitsDistinctIds ==
    /\ Len(order) = AddCallsUpTo(buildIdx)
    /\ Cardinality(Registered) = Len(order)
    /\ Cardinality({IdText(t) : t \in Registered}) = Cardinality(Registered)
    /\ BuildDone => Cardinality(Registered) = Len(Pairs) * UnitsOfAll(experiments)

\* the graph of two experiments for two (variant, mode) pairs is built: the same
\* scenarios occur under both pairs, as generation and as judge tasks
Wit_C34_SameScenarioUnderTwoPairs ==
    /\ BuildDone
    /\ Len(Pairs) = 2
    /\ experiments = <<"identity", "stability">>
    /\ Cardinality(Registered) = 56
    /\ \E t, u \in Registered :
          /\ t # u
          /\ IdScenario(t) = IdScenario(u)
          /\ IdPhase(t) = IdPhase(u)
          /\ IdText(t) = "gen:m1:neutral:user_role:stability:pt01_turn2"

\* ---------------------------------------------------------------- C35
\* the runs of InitRun, where the worker threads and the thread in run() go on
\* while they have a step to take
SpecEveryPoolFair == InitRun /\ [][NextSerial]_vars /\ WF_vars(NextSerial)

\* the place of a registered task in self._tasks, the order in which run() submits
PositionOf(t) == CHOOSE i \in 1..Len(order) : order[i] = t

\* every id of a depends_on list is registered, and registered before the task
RegisteredAfterDependencies ==
    \A t \in Registered : \A k \in 1..Len(depends_on[t]) :
        /\ depends_on[t][k] \in Registered
        /\ PositionOf(depends_on[t][k]) < PositionOf(t)

\* C35: build_generation_tasks followed by build_judge_tasks registers every task
\* after all the tasks it depends on, and every depends_on id is registered; and
\* run() on such a graph returns, with every task terminal, on a pool of one worker
Thm_C35_BuiltGraphRunsToTheEnd ==
    /\ [](RegisteredAfterDependencies)
    /\ <>(runPc = "returned" /\ returned = Registered /\ \A t \in Registered : Finished(t))
\* a run on one worker thread has returned: a generation task failed in its own
\* work, a task registered after it failed on that dependency without a call, and
\* every task is terminal
Wit_C35_OneWorkerReturnedWithFailedChain ==
    /\ runPc = "returned"
    /\ max_workers = 1
    /\ Len(order) >= 4
    /\ \A t \in Registered : Finished(t)
    /\ \E t, u \in Registered :
        /\ OwnFailure(t)
        /\ t \in Range(depends_on[u])
        /\ PositionOf(t) < PositionOf(u)
        /\ HasError(u)
        /\ calls[u] = <<>>

\* ------------------------------------------------ the record behind a set event
\* the dependency whose event t has just waited for
WaitedFor(t) == depends_on[t][depIdx[t]]

\* C36: whenever a task's event is set, the task is already in _completed with its
\* final result or error and _execute_task is over; so a dependent that returns
\* from wait() finds the record of the dependency: every registered dependency its
\* loop has passed is recorded without error, and a task that ended without invoking
\* its fn holds the error of the failed dependency its loop stopped at.
Thm_C36_RecordBeforeSignal ==
    \A t \in Registered :
        /\ events[t] => t \in completed /\ pc[t] = "done" /\ (Succeeded(t) \/ HasError(t))
        /\ pc[t] = "check" => events[WaitedFor(t)] /\ WaitedFor(t) \in completed
        /\ \A k \in 1..Len(depends_on[t]) :
              (k < depIdx[t] /\ depends_on[t][k] \in Registered) =>
                  depends_on[t][k] \in completed /\ ~HasError(depends_on[t][k])
        /\ (pc[t] \in {"store", "signal", "done"} /\ calls[t] = <<>>) =>
              /\ WaitedFor(t) \in completed
              /\ HasError(WaitedFor(t))
              /\ task[t].error = DependencyError(WaitedFor(t), task[WaitedFor(t)].error)

\* a dependent has returned from wait() on a dependency that failed in its own work,
\* while another task is recorded and has not set its event yet
Wit_C36_WokenOnFailedDependency ==
    \E t, d, s \in Registered :
        /\ pc[t] = "check"
        /\ d = WaitedFor(t)
        /\ events[d] /\ d \in completed /\ OwnFailure(d)
        /\ pc[s] = "signal" /\ s \in completed /\ ~events[s]

\* -------------------------------------------------- the call counters of a run
\* C37: when run_model_parallel has returned, gen_calls (gen_cost.n_calls) is the
\* number of generation calls from which the client returned during the run and
\* judge_calls (judge_cost.n_calls) the number of such judge calls, each attempt of
\* a retried task counted once, however the tasks of the pool interleaved.
CE_C37_CallCountsExact ==
    runPc = "returned" =>
        /\ n_calls.gen = AddsDone("gen")
        /\ n_calls.judge = AddsDone("judge")

\* ------------------------------------------------ the ids inside one message list
\* the assistant and tool messages a tool_role builder makes of the ids it drew:
\* each assistant message carries the id just drawn in its tool call, and the tool
\* message after it carries the same local tc_id
ToolMessages(ids) ==
    [k \in 1..(2 * Len(ids)) |->
        [role |-> IF k % 2 = 1 THEN "assistant" ELSE "tool", id |-> ids[(k + 1) \div 2]]]

\* C38: in every message list a tool_role builder has built, the ids of the tool
\* calls differ pairwise and every tool message carries the id of the assistant
\* tool call directly before it, also when builders run in several worker threads
\* at the same time.
CE_C38_ToolCallIdsDistinctAndPaired ==
    \A t \in DOMAIN drawn :
        drawn[t].at = "built" =>
            LET msgs == ToolMessages(drawn[t].ids)
            IN /\ \A i, j \in DOMAIN msgs :
                    (i < j /\ msgs[i].role = "assistant" /\ msgs[j].role = "assistant")
                        => msgs[i].id # msgs[j].id
               /\ \A k \in DOMAIN msgs :
                    msgs[k].role = "tool" =>
                        msgs[k - 1].role = "assistant" /\ msgs[k - 1].id = msgs[k].id

\* ------------------------------------------ cached units behind a failing unit
\* the tasks registered with fn=lambda: None that graph.run() has been entered with
NoOpTasks == {t \in Threads : fn[t].kind = "noop"}

\* the ids of negotiation turn 2 and of the stability turns 2
IsTurn2(t) == IsGen(t) /\ Last(t) \in {"negotiation_turn2", "_turn2"}

\* C39: a finished short-circuited task holds an error exactly when one of its
\* dependencies finished with an error, and then it is the dependency error and its
\* lambda was not invoked; otherwise it holds no error after one invocation. A
\* turn 2 always depends on its turn 1, so a cached turn 2 whose turn 1 failed in
\* this run ends failed, and a judge task depending on a failed cached task ends
\* failed without a judge call.
Thm_C39_CachedTaskFailsWithDependency ==
    /\ \A t \in NoOpTasks :
        /\ IsTurn2(t) => Turn1Path(t) \in RegDeps(t)
        /\ Finished(t) =>
            /\ HasError(t) = (\E d \in RegDeps(t) : d \in completed /\ HasError(d))
            /\ IF HasError(t)
               THEN DepFailureOutcome(t)
               ELSE calls[t] = <<"noop">> /\ RegDeps(t) \subseteq completed
    /\ \A j \in Threads :
        (IsJudge(j) /\ Finished(j) /\ \E d \in RegDeps(j) \cap NoOpTasks : HasError(d))
            => DepFailureOutcome(j) /\ ChatCalls(j) = {}

\* negotiation turn 1 was missing from the cache and failed in this run; the cached
\* turn 2 ended failed on it, and the negotiation judge ended failed without a call
Wit_C39_CachedTurnTwoBehindFailedTurnOne ==
    /\ runPc = "returned"
    /\ experiments = <<"identity">>
    /\ Len(Pairs) = 1
    /\ LET t1 == GenId(Pairs[1][1], Pairs[1][2], "identity", <<"negotiation_turn1">>)
           t2 == GenId(Pairs[1][1], Pairs[1][2], "identity", <<"negotiation_turn2">>)
           j == JudgeId(Pairs[1][1], Pairs[1][2], "identity", "negotiation")
       IN /\ fn[t1].kind = "gen" /\ OwnFailure(t1)
          /\ fn[t2].kind = "noop" /\ DepFailureOutcome(t2)
          /\ fn[j].kind = "judge" /\ DepFailureOutcome(j) /\ calls[j] = <<>>

\* ------------------------------------------- dependencies that are not registered
\* the dependency loop of t stands at an id that is not in self._events
AtUnregisteredDep(t) ==
    /\ pc[t] = "deps"
    /\ depIdx[t] <= Len(depends_on[t])
    /\ depends_on[t][depIdx[t]] \notin Registered

\* C40: a depends_on id that is not registered is ignored: the loop can always pass
\* it, and while the loop runs nothing is written to the task; a task ends without
\* invoking its fn only on a registered dependency that ended with an error, and a
\* finished task none of whose registered dependencies failed has invoked its fn.
Thm_C40_UnregisteredDependencyIgnored ==
    \A t \in Registered :
        /\ AtUnregisteredDep(t) => ENABLED SkipDep(t)
        /\ pc[t] \in {"deps", "check"} =>
              task[t] = [result |-> NoResult, error |-> NoError] /\ calls[t] = <<>>
        /\ (pc[t] \in {"store", "signal", "done"} /\ calls[t] = <<>>) =>
              \E d \in RegDeps(t) : d \in completed /\ HasError(d)
        /\ (Finished(t) /\ \A d \in RegDeps(t) : ~HasError(d)) => calls[t] # <<>>

\* a task all of whose depends_on ids are unregistered has run its fn and succeeded
\* while another task is still unfinished
Wit_C40_RanPastUnregisteredDependency ==
    \E t, u \in Registered :
        /\ depends_on[t] # <<>>
        /\ RegDeps(t) = {}
        /\ Succeeded(t) /\ Finished(t)
        /\ ~Finished(u)

====
